---------------------------- MODULE Spec2Model ----------------------------
(***************************************************************************)
(* A model of the iDRAC Redfish client (plugins/module_utils/dell_idrac.py):*)
(* the request layer, the per-session resource cache, the action invoker,  *)
(* the polling loops and the power-cycle orchestrator.                      *)
(*                                                                         *)
(* Strings whose content the code inspects (URIs, job ids, job messages,   *)
(* Location headers) are sequences of one-character strings, so that       *)
(* `in`, startswith, split and format are computed, not assumed.  Strings  *)
(* the code only compares or uses as dictionary keys (field names, action  *)
(* names, parameter names and values, power states) are TLA+ strings.      *)
(* A Python dict is a function; `k in d` is k \in DOMAIN d.                 *)
(***************************************************************************)
EXTENDS Integers, Sequences, FiniteSets, TLC

(***************************************************************************)
(* Bounds of the model.                                                    *)
(***************************************************************************)
\* The time (in clock units) a network request takes is 0 throughout a call,
\* or FetchMax throughout.
FetchMax == 2
\* With no effective timeout a wait polls forever: sleeping stops once the
\* clock has reached MaxClock.
MaxClock == 20
\* The caller's timeouts tried: None and 0..MaxTimeout.
MaxTimeout == 10

(***************************************************************************)
(* Program constants.                                                      *)
(***************************************************************************)
\* time.sleep(5) in both polling loops
PollInterval == 5

\* RESOURCES.system, RESOURCES.manager, RESOURCES.jobs
RESOURCES_system == <<"/","r","e","d","f","i","s","h","/","v","1","/","S","y","s","t","e","m","s","/","S","y","s","t","e","m",".","E","m","b","e","d","d","e","d",".","1">>
RESOURCES_manager == <<"/","r","e","d","f","i","s","h","/","v","1","/","M","a","n","a","g","e","r","s","/","i","D","R","A","C",".","E","m","b","e","d","d","e","d",".","1">>
RESOURCES_jobs == <<"/","r","e","d","f","i","s","h","/","v","1","/","M","a","n","a","g","e","r","s","/","i","D","R","A","C",".","E","m","b","e","d","d","e","d",".","1","/","J","o","b","s">>

\* class JOB_STATE(Enum)
JOB_STATE == {"unknown", "scheduled", "running", "finished", "failed"}

\* The fixed vocabulary get_job_state compares with.
MsgScheduled == <<"T","a","s","k"," ","s","u","c","c","e","s","s","f","u","l","l","y"," ","s","c","h","e","d","u","l","e","d",".">>
MsgRunning == <<"J","o","b"," ","i","n"," ","p","r","o","g","r","e","s","s",".">>
MsgFinished == <<"J","o","b"," ","c","o","m","p","l","e","t","e","d"," ","s","u","c","c","e","s","s","f","u","l","l","y",".">>

(***************************************************************************)
(* Python string operations on character sequences.                        *)
(***************************************************************************)
\* sub in s
Contains(s, sub) ==
    \E i \in 1..(Len(s) - Len(sub) + 1) : SubSeq(s, i, i + Len(sub) - 1) = sub

\* s.startswith(p)
StartsWith(s, p) == Len(s) >= Len(p) /\ SubSeq(s, 1, Len(p)) = p

\* c.lower() for one character
LowerChar(c) ==
    CASE c = "A" -> "a" [] c = "B" -> "b" [] c = "C" -> "c" [] c = "D" -> "d"
      [] c = "E" -> "e" [] c = "F" -> "f" [] c = "G" -> "g" [] c = "H" -> "h"
      [] c = "I" -> "i" [] c = "J" -> "j" [] c = "K" -> "k" [] c = "L" -> "l"
      [] c = "M" -> "m" [] c = "N" -> "n" [] c = "O" -> "o" [] c = "P" -> "p"
      [] c = "Q" -> "q" [] c = "R" -> "r" [] c = "S" -> "s" [] c = "T" -> "t"
      [] c = "U" -> "u" [] c = "V" -> "v" [] c = "W" -> "w" [] c = "X" -> "x"
      [] c = "Y" -> "y" [] c = "Z" -> "z" [] OTHER -> c

\* s.lower()
Lower(s) == [i \in 1..Len(s) |-> LowerChar(s[i])]

\* '{}/{}'.format(a, b)
JoinSlash(a, b) == a \o <<"/">> \o b

(***************************************************************************)
(* The caller's timeout: None is the empty tuple, a number n is <<n>>.     *)
(***************************************************************************)
NoTimeout == <<>>

\* Python truthiness of the timeout argument: None and 0 are false.
Truthy(timeout) == timeout # NoTimeout /\ timeout[1] # 0

\* The deadline test, mutated: the deadline is one poll interval late.
TimedOutLate(timeout, t, start) ==
    Truthy(timeout) /\ (t - start) > timeout[1] + PollInterval

\* timeout and (time.time() - time_start) > timeout
TimedOut(timeout, t, start) == Truthy(timeout) /\ (t - start) > timeout[1]

\* IDRAC.get_job_state, mutated: 'failed' is looked for in the message as it
\* is, without lower().
get_job_state_as_is(job) ==
    IF Contains(job["Message"], <<"f","a","i","l","e","d">>) THEN "failed"
    ELSE IF job["Message"] = MsgScheduled THEN "scheduled"
    ELSE IF job["Message"] = MsgRunning THEN "running"
    ELSE IF job["Message"] = MsgFinished THEN "finished"
    ELSE "unknown"

\* IDRAC.get_job_state(job)
get_job_state(job) ==
    IF Contains(Lower(job["Message"]), <<"f","a","i","l","e","d">>) THEN "failed"
    ELSE IF job["Message"] = MsgScheduled THEN "scheduled"
    ELSE IF job["Message"] = MsgRunning THEN "running"
    ELSE IF job["Message"] = MsgFinished THEN "finished"
    ELSE "unknown"

\* The uri of a job, mutated: jid is joined under RESOURCES.jobs whatever
\* it starts with.
JobUriAlwaysJoined(jid) == JoinSlash(RESOURCES_jobs, jid)

\* The uri IDRAC.get_job fetches for jid.
JobUri(jid) ==
    IF ~StartsWith(jid, <<"/">>) THEN JoinSlash(RESOURCES_jobs, jid) ELSE jid


(***************************************************************************)
(* Server documents and HTTP responses (the environment).                  *)
(***************************************************************************)
\* The reset action's target on the system resource.
ResetTarget == <<"/","r","e","d","f","i","s","h","/","v","1","/","S","y","s","t","e","m","s","/","S","y","s","t","e","m",".","E","m","b","e","d","d","e","d",".","1","/","A","c","t","i","o","n","s","/","C","o","m","p","u","t","e","r","S","y","s","t","e","m",".","R","e","s","e","t">>

\* Short uris for calls of the generic session operations: two paths, a
\* fully qualified URL, and an action target.
PathX == <<"/","x">>
PathY == <<"/","y">>
QualifiedUrl == <<"s",":","/","/","h","/","x">>
TargetX == <<"/","x","/","A">>

\* '{}@Redfish.AllowableValues'.format(pname), for the parameter names used.
AllowableKey(pname) ==
    CASE pname = "ResetType" -> "ResetType@Redfish.AllowableValues"
      [] pname = "InitializeType" -> "InitializeType@Redfish.AllowableValues"
      [] pname = "Bar" -> "Bar@Redfish.AllowableValues"
      [] OTHER -> "?@Redfish.AllowableValues"

\* Action descriptors a server may publish under 'Actions'.
ActionsFull(target) ==
    "#ComputerSystem.Reset" :>
        (("target" :> target)
         @@ ("ResetType@Redfish.AllowableValues" :> {"On", "ForceOff", "GracefulShutdown"})
         @@ ("Bar@Redfish.AllowableValues" :> {"X"}))
ActionsNoForce(target) ==
    "#ComputerSystem.Reset" :>
        (("target" :> target)
         @@ ("ResetType@Redfish.AllowableValues" :> {"On", "GracefulShutdown"}))

PowerStates == {"On", "Off", "PoweringOn"}

\* A system document, and the decoded empty body ({}).
SystemDoc(ps, acts) == [PowerState |-> ps, Actions |-> acts]
SystemDocs ==
    {SystemDoc(ps, acts) : ps \in PowerStates,
                            acts \in {ActionsFull(ResetTarget), ActionsNoForce(ResetTarget)}}
EmptyDoc == <<>>

\* An HTTP response: status, Content-type header, kind of body text
\* ("empty", "json", "garbage"), the decoded JSON when the body is JSON, and
\* the Location header ('' when absent).
Response(status, ctype, body, json, loc) ==
    [status |-> status, ctype |-> ctype, body |-> body, json |-> json, Location |-> loc]
OkJson(doc) == Response(200, "application/json", "json", doc, <<>>)
OkEmpty == Response(200, "application/json;charset=utf-8", "empty", EmptyDoc, <<>>)
OkNotJson == Response(200, "text/html", "garbage", EmptyDoc, <<>>)
HttpError == Response(400, "application/json", "empty", EmptyDoc, <<>>)

\* What the server may answer to a GET of a document from docs, and to a POST.
GetResponses(docs) == {OkJson(d) : d \in docs} \cup {OkEmpty, OkNotJson, HttpError}
PostResponses == {OkEmpty, HttpError}

\* The time one request takes, fixed for a call.
Latencies == {0, FetchMax}

(***************************************************************************)
(* IDRAC.request, get, get_cached, post, _execute_action.                  *)
(* Each operator takes the session cache and the server's response(s) and  *)
(* gives: cache (the cache afterwards), exc (the exception raised, "none"  *)
(* on return), ret (the value returned) and reqs (the network requests     *)
(* issued, in order).                                                      *)
(***************************************************************************)
\* res.headers['Content-type'].split(';')[0]
CtypeMain(ctype) ==
    CASE ctype = "application/json;charset=utf-8" -> "application/json"
      [] OTHER -> ctype

\* res.raise_for_status() raises
IsHttpError(status) == 400 <= status /\ status < 600

NetReq(method, uri, json) == [method |-> method, uri |-> uri, json |-> json]

\* The loop of OperationFailed.__init__ over the entries of
\* '@Message.ExtendedInfo' from entry i on: errs are the pairs appended.
RECURSIVE errors_from(_, _, _)
errors_from(errs, info, i) ==
    IF i > Len(info) THEN [exc |-> "OperationFailed", errors |-> errs]
    ELSE IF {"MessageId", "Message"} \subseteq DOMAIN info[i]
    THEN errors_from(Append(errs, <<info[i]["MessageId"], info[i]["Message"]>>), info, i + 1)
    ELSE [exc |-> "KeyError", errors |-> <<>>]

\* OperationFailed(err) for the response res: the exception the
\* construction ends with (OperationFailed itself when __init__ completes)
\* and its errors attribute.
OperationFailed_init(res) ==
    IF res.body = "garbage" THEN [exc |-> "JSONDecodeError", errors |-> <<>>]
    ELSE LET data == IF res.body = "empty" THEN EmptyDoc ELSE res.json
         IN  IF "error" \notin DOMAIN data THEN [exc |-> "OperationFailed", errors |-> <<>>]
             ELSE IF "@Message.ExtendedInfo" \notin DOMAIN data["error"]
             THEN [exc |-> "OperationFailed", errors |-> <<>>]
             ELSE errors_from(<<>>, data["error"]["@Message.ExtendedInfo"], 1)

\* IDRAC.request: exc, data and whether the request went on the wire.
request(method, uri, res) ==
    IF Contains(uri, <<":", "/", "/">>)
    THEN [exc |-> "ValueError", data |-> EmptyDoc, sent |-> FALSE]
    ELSE IF IsHttpError(res.status)
    THEN [exc |-> OperationFailed_init(res).exc, data |-> EmptyDoc, sent |-> TRUE]
    ELSE IF CtypeMain(res.ctype) # "application/json"
    THEN [exc |-> "ValueError", data |-> EmptyDoc, sent |-> TRUE]
    ELSE IF res.body = "garbage"
    THEN [exc |-> "JSONDecodeError", data |-> EmptyDoc, sent |-> TRUE]
    ELSE [exc |-> "none",
          data |-> ("_location" :> res.Location)
                   @@ (IF res.body = "empty" THEN EmptyDoc ELSE res.json),
          sent |-> TRUE]

\* self._cache[uri] = res
Store(c, uri, data) == (uri :> data) @@ c

Raise(c, exc, reqs) == [cache |-> c, exc |-> exc, ret |-> EmptyDoc, reqs |-> reqs]
Return(c, ret, reqs) == [cache |-> c, exc |-> "none", ret |-> ret, reqs |-> reqs]

\* IDRAC.get, mutated: the fetched resource is returned but not stored.
get_nostore(c, uri, res) ==
    LET r == request("GET", uri, res)
        reqs == IF r.sent THEN <<NetReq("GET", uri, EmptyDoc)>> ELSE <<>>
    IN  IF r.exc # "none" THEN Raise(c, r.exc, reqs) ELSE Return(c, r.data, reqs)

\* IDRAC.get
get(c, uri, res) ==
    LET r == request("GET", uri, res)
        reqs == IF r.sent THEN <<NetReq("GET", uri, EmptyDoc)>> ELSE <<>>
    IN  IF r.exc # "none"
        THEN Raise(c, r.exc, reqs)
        ELSE Return(Store(c, uri, r.data), r.data, reqs)

\* IDRAC.get_cached, mutated: always refetches.
get_cached_refetch(c, uri, res) == get(c, uri, res)

\* IDRAC.get_cached
get_cached(c, uri, res) ==
    IF uri \in DOMAIN c THEN Return(c, c[uri], <<>>) ELSE get(c, uri, res)

\* post, mutated: the response is stored in the cache under the posted uri.
post_store(c, uri, json, res) ==
    LET r == request("POST", uri, res)
        reqs == IF r.sent THEN <<NetReq("POST", uri, json)>> ELSE <<>>
    IN  IF r.exc # "none"
        THEN Raise(c, r.exc, reqs)
        ELSE Return(Store(c, uri, r.data), r.data, reqs)

\* requests.Session.post, which goes through IDRAC.request
post(c, uri, json, res) ==
    LET r == request("POST", uri, res)
        reqs == IF r.sent THEN <<NetReq("POST", uri, json)>> ELSE <<>>
    IN  IF r.exc # "none" THEN Raise(c, r.exc, reqs) ELSE Return(c, r.data, reqs)

\* The keyword arguments of a call, in the order given: a sequence of
\* <<name, value>> pairs. json=params is the dictionary they make.
ParamsDict(params) ==
    [n \in {params[i][1] : i \in DOMAIN params} |->
        params[CHOOSE i \in DOMAIN params : params[i][1] = n][2]]

\* The loop of _execute_action, mutated: it stops after the first parameter.
ValidateFirstOnly(action, params, i) ==
    IF i > Len(params) THEN "none"
    ELSE IF AllowableKey(params[i][1]) \notin DOMAIN action THEN "KeyError"
    ELSE IF params[i][2] \notin action[AllowableKey(params[i][1])] THEN "ValueError"
    ELSE "none"

\* The loop of _execute_action over params.items(): the exception the first
\* offending parameter raises, "none" when every parameter passes.
RECURSIVE ValidateParams(_, _, _)
ValidateParams(action, params, i) ==
    IF i > Len(params) THEN "none"
    ELSE IF AllowableKey(params[i][1]) \notin DOMAIN action THEN "KeyError"
    ELSE IF params[i][2] \notin action[AllowableKey(params[i][1])] THEN "ValueError"
    ELSE ValidateParams(action, params, i + 1)

\* _execute_action, mutated: the resource is always fetched afresh.
execute_action_fresh(c, uri, action, params, resGet, resPost) ==
    LET g == get(c, uri, resGet)
    IN  IF g.exc # "none" THEN g
        ELSE IF "Actions" \notin DOMAIN g.ret THEN Raise(g.cache, "KeyError", g.reqs)
        ELSE IF action \notin DOMAIN g.ret["Actions"] THEN Raise(g.cache, "KeyError", g.reqs)
        ELSE LET act == g.ret["Actions"][action]
                 v == ValidateParams(act, params, 1)
             IN  IF v # "none" THEN Raise(g.cache, v, g.reqs)
                 ELSE IF "target" \notin DOMAIN act THEN Raise(g.cache, "KeyError", g.reqs)
                 ELSE LET p == post(g.cache, act["target"], ParamsDict(params), resPost)
                      IN  [p EXCEPT !.reqs = g.reqs \o p.reqs]

\* IDRAC._execute_action(uri, action, **params)
_execute_action(c, uri, action, params, resGet, resPost) ==
    LET g == get_cached(c, uri, resGet)
    IN  IF g.exc # "none" THEN g
        ELSE IF "Actions" \notin DOMAIN g.ret THEN Raise(g.cache, "KeyError", g.reqs)
        ELSE IF action \notin DOMAIN g.ret["Actions"] THEN Raise(g.cache, "KeyError", g.reqs)
        ELSE LET act == g.ret["Actions"][action]
                 v == ValidateParams(act, params, 1)
             IN  IF v # "none" THEN Raise(g.cache, v, g.reqs)
                 ELSE IF "target" \notin DOMAIN act THEN Raise(g.cache, "KeyError", g.reqs)
                 ELSE LET p == post(g.cache, act["target"], ParamsDict(params), resPost)
                      IN  [p EXCEPT !.reqs = g.reqs \o p.reqs]

\* IDRAC.get_system
get_system(c, res) == get(c, RESOURCES_system, res)

\* IDRAC.get_job(jid)
get_job(c, jid, res) == get(c, JobUri(jid), res)

\* IDRAC.get_manager()
get_manager(c, res) == get(c, RESOURCES_manager, res)

\* IDRAC.reset_manager()
reset_manager(c, resGet, resPost) ==
    _execute_action(c, RESOURCES_manager, "#Manager.Reset",
                    <<(<<"ResetType", "GracefulRestart">>)>>, resGet, resPost)

\* IDRAC.reset_system(reset_type)
reset_system(c, reset_type, resGet, resPost) ==
    _execute_action(c, RESOURCES_system, "#ComputerSystem.Reset",
                    <<(<<"ResetType", reset_type>>)>>, resGet, resPost)

(***************************************************************************)
(* State.                                                                  *)
(***************************************************************************)
VARIABLES
    cache,      \* self._cache: uri -> last stored representation
    last,       \* the session operation just completed: its inputs and outcome
    lastGet,    \* uri -> what the latest successful call of get(uri) returned
    prevGet,    \* uri -> what the successful call of get(uri) before that returned
    pc,         \* position of the running call (power cycle or wait)
    call,       \* the running call: op, timeout, and the wait's arguments
    phase,      \* which wait is running: "graceful", "forced", "poweron", "alone"
    want,       \* want_state of the running wait
    time_start, \* time_start of the running wait
    now,        \* time.time(), 0 when the call starts
    outcome,    \* "running", "returned", or the exception that ended the call
    posts,      \* the POSTs issued during the call, in order
    polls,      \* fetches made by the running wait
    sleeps,     \* sleeps made by the running wait
    slept,      \* sleeps made during the whole call
    first,      \* PowerState reported by power_cycle_system's first fetch
    offSeen,    \* a poll of a wait of this call reported PowerState 'Off'
    tGraceful,  \* the clock when reset_system('GracefulShutdown') returned
    tForced,    \* the clock when reset_system('ForceOff') returned
    lastPoll,   \* the latest poll: phase, state read, clock, verdict
    server,     \* the resources the server holds: uri -> response to a GET of it
    input,      \* the function under test and its argument
    output      \* what the function returned or raised for it

sessionVars == <<cache, last, lastGet, prevGet>>
runVars == <<pc, call, phase, want, time_start, now, outcome, posts, polls,
             sleeps, slept, first, offSeen, tGraceful, tForced, lastPoll>>
\* What wait_for_job_state, wait_for_power_state and power_cycle_system keep
\* besides their position.
waitVars == <<phase, want, time_start, now, outcome, posts, polls, sleeps, slept,
              first, offSeen, tGraceful, tForced, lastPoll>>
vars == <<cache, last, lastGet, prevGet, pc, call, phase, want, time_start, now,
          outcome, posts, polls, sleeps, slept, first, offSeen, tGraceful,
          tForced, lastPoll, server, input, output>>

NoOp ==
    [op |-> "none", uri |-> <<>>, action |-> "", params |-> <<>>, hit |-> FALSE,
     resGet |-> HttpError, exc |-> "none", ret |-> EmptyDoc, reqs |-> <<>>]

NoPoll == [phase |-> "none", have |-> "", at |-> 0, verdict |-> "none"]
NoCall == [op |-> "none", timeout |-> NoTimeout, jid |-> <<>>, latency |-> 0]

NoInput == [fn |-> "none"]
NoOutput == [done |-> FALSE]

\* IDRAC.__init__ : an empty cache; no call running.  srv is what the server
\* holds, inp the argument of the function under test.
InitState(srv, inp) ==
    /\ server = srv
    /\ input = inp
    /\ output = NoOutput
    /\ cache = <<>>
    /\ last = NoOp
    /\ lastGet = <<>>
    /\ prevGet = <<>>
    /\ pc = "idle"
    /\ call = NoCall
    /\ phase = "none"
    /\ want = ""
    /\ time_start = 0
    /\ now = 0
    /\ outcome = "none"
    /\ posts = <<>>
    /\ polls = 0
    /\ sleeps = 0
    /\ slept = 0
    /\ first = "none"
    /\ offSeen = FALSE
    /\ tGraceful = 0
    /\ tForced = 0
    /\ lastPoll = NoPoll

Init == InitState(<<>>, NoInput)

(***************************************************************************)
(* Session operations called one after another on one session: get,        *)
(* get_cached, post and _execute_action, each with the server's answers.   *)
(***************************************************************************)
\* The uris the session is asked for.
SessionUris == {PathX, PathY, QualifiedUrl}

\* The documents the server holds under them.
SessionDocs ==
    {SystemDoc("On", ActionsFull(TargetX)), SystemDoc("Off", ActionsNoForce(TargetX))}

\* Keyword arguments passed to _execute_action.
ParamSets ==
    {<<(<<"ResetType", "On">>)>>,
     <<(<<"ResetType", "ForceOff">>)>>,
     <<(<<"ResetType", "On">>), (<<"Bar", "X">>)>>,
     <<(<<"ResetType", "On">>), (<<"Bar", "Z">>)>>,
     <<(<<"Bar", "Z">>), (<<"ResetType", "On">>)>>}

ActionNames == {"#ComputerSystem.Reset", "#Manager.Reset"}

\* The record of a completed operation: hit tells whether uri was cached when
\* it began, resGet is the server's answer to the GET it made, if it made one.
Done(op, uri, action, params, resGet, r) ==
    [op |-> op, uri |-> uri, action |-> action, params |-> params,
     hit |-> uri \in DOMAIN cache,
     resGet |-> resGet, exc |-> r.exc, ret |-> r.ret, reqs |-> r.reqs]

\* The server's answers to a GET of uri; a single one where none is read: for
\* a qualified URL, which request refuses before any network access.
GetResponsesFor(uri) ==
    IF Contains(uri, <<":", "/", "/">>) THEN {HttpError} ELSE GetResponses(SessionDocs)

\* The same for get_cached, which asks the server only when uri is not cached.
GetResponsesOnMiss(uri) ==
    IF uri \in DOMAIN cache THEN {HttpError} ELSE GetResponsesFor(uri)

CallGet ==
    \E uri \in SessionUris :
      \E res \in GetResponsesFor(uri) :
        LET r == get(cache, uri, res)
        IN  /\ cache' = r.cache
            /\ last' = Done("get", uri, "", <<>>, res, r)
            /\ lastGet' = IF r.exc = "none" THEN (uri :> r.ret) @@ lastGet ELSE lastGet
            /\ prevGet' = IF r.exc = "none" /\ uri \in DOMAIN lastGet
                          THEN (uri :> lastGet[uri]) @@ prevGet ELSE prevGet
            /\ UNCHANGED <<runVars, server, input, output>>

CallGetCached ==
    \E uri \in SessionUris :
      \E res \in GetResponsesOnMiss(uri) :
        LET r == get_cached(cache, uri, res)
        IN  /\ cache' = r.cache
            /\ last' = Done("get_cached", uri, "", <<>>, res, r)
            /\ UNCHANGED <<lastGet, prevGet>>
            /\ UNCHANGED <<runVars, server, input, output>>

CallPost ==
    \E uri \in {PathX, TargetX, QualifiedUrl}, res \in PostResponses,
       json \in {ParamsDict(<<(<<"ResetType", "On">>)>>)} :
        LET r == post(cache, uri, json, res)
        IN  /\ cache' = r.cache
            /\ last' = Done("post", uri, "", <<>>, HttpError, r)
            /\ UNCHANGED <<lastGet, prevGet>>
            /\ UNCHANGED <<runVars, server, input, output>>

CallExecuteAction ==
    \E uri \in {PathX, QualifiedUrl}, action \in ActionNames, params \in ParamSets,
       resPost \in PostResponses :
      \E resGet \in GetResponsesOnMiss(uri) :
        LET r == _execute_action(cache, uri, action, params, resGet, resPost)
        IN  /\ cache' = r.cache
            /\ last' = Done("_execute_action", uri, action, params, resGet, r)
            /\ UNCHANGED <<lastGet, prevGet>>
            /\ UNCHANGED <<runVars, server, input, output>>

\* The manager resource, publishing '#Manager.Reset', and what else the
\* server may answer a GET of the manager with: a document without that
\* action.
ManagerResetTarget == RESOURCES_manager \o <<"/","A","c","t","i","o","n","s","/","M","a","n","a","g","e","r",".","R","e","s","e","t">>
ManagerDoc ==
    [Id |-> "iDRAC",
     Actions |-> ("#Manager.Reset" :>
                     (("target" :> ManagerResetTarget)
                      @@ ("ResetType@Redfish.AllowableValues" :> {"GracefulRestart"})))]
ManagerDocs == {ManagerDoc, SystemDoc("On", ActionsFull(TargetX))}

\* The server's answer to the GET reset_manager makes when the manager is
\* not cached.
ManagerResponsesOnMiss ==
    IF RESOURCES_manager \in DOMAIN cache THEN {HttpError} ELSE GetResponses(ManagerDocs)

CallGetManager ==
    \E res \in GetResponses(ManagerDocs) :
        LET r == get_manager(cache, res)
            uri == RESOURCES_manager
        IN  /\ cache' = r.cache
            /\ last' = Done("get", uri, "", <<>>, res, r)
            /\ lastGet' = IF r.exc = "none" THEN (uri :> r.ret) @@ lastGet ELSE lastGet
            /\ prevGet' = IF r.exc = "none" /\ uri \in DOMAIN lastGet
                          THEN (uri :> lastGet[uri]) @@ prevGet ELSE prevGet
            /\ UNCHANGED <<runVars, server, input, output>>

CallResetManager ==
    \E resPost \in PostResponses :
      \E resGet \in ManagerResponsesOnMiss :
        LET r == reset_manager(cache, resGet, resPost)
        IN  /\ cache' = r.cache
            /\ last' = Done("_execute_action", RESOURCES_manager, "#Manager.Reset",
                            <<(<<"ResetType", "GracefulRestart">>)>>, resGet, r)
            /\ UNCHANGED <<lastGet, prevGet>>
            /\ UNCHANGED <<runVars, server, input, output>>

NextSession == CallGet \/ CallGetCached \/ CallPost \/ CallExecuteAction

SpecSession == Init /\ [][NextSession]_vars

\* get_manager and reset_manager called one after another on one session.
NextManager ==
    \/ CallGetManager
    \/ CallResetManager

SpecManager == Init /\ [][NextManager]_vars

(***************************************************************************)
(* The cache and the action invoker.                                       *)
(***************************************************************************)
\* The data a successful request returns for response res: the decoded body
\* with the Location header added under '_location'.
Decoded(res) ==
    [k \in (IF res.body = "json" THEN DOMAIN res.json ELSE {}) \cup {"_location"} |->
        IF k = "_location" THEN res.Location ELSE res.json[k]]

\* The server answered res with success and a JSON (or empty) body.
GoodResponse(res) ==
    res.status = 200 /\ res.body # "garbage"
    /\ res.ctype \in {"application/json", "application/json;charset=utf-8"}

IsQualified(uri) == \E i \in 1..Len(uri) - 2 : uri[i] = ":" /\ uri[i+1] = "/" /\ uri[i+2] = "/"

Posts(reqs) == SelectSeq(reqs, LAMBDA q : q.method = "POST")
Gets(reqs) == SelectSeq(reqs, LAMBDA q : q.method = "GET")

\* C5: after a successful get(p), a later get_cached(p) makes no network
\* request and returns what the latest successful get(p) returned; when an
\* earlier get(p) had returned different data, it is the newer data that
\* get_cached(p) returns, not the older.
C5_CachedIsLatestGet ==
    (last.op = "get_cached" /\ last.uri \in DOMAIN lastGet) =>
        /\ last.exc = "none"
        /\ last.reqs = <<>>
        /\ last.ret = lastGet[last.uri]
        /\ (last.uri \in DOMAIN prevGet /\ prevGet[last.uri] # lastGet[last.uri]
              => last.ret # prevGet[last.uri])

\* A get_cached(p) after two gets of p that returned different data.
C5_Witness ==
    /\ last.op = "get_cached"
    /\ last.uri \in DOMAIN prevGet
    /\ prevGet[last.uri] # lastGet[last.uri]
    /\ last.ret = lastGet[last.uri]
    /\ last.reqs = <<>>

\* C6 as stated: every call of get(path) makes exactly one network request
\* and leaves the cache entry of path equal to the outcome of that request;
\* get_cached makes no request on a hit and exactly one on a miss.
C6_Original ==
    /\ last.op = "get" =>
          /\ Len(last.reqs) = 1
          /\ last.uri \in DOMAIN cache
          /\ cache[last.uri] = last.ret
    /\ last.op = "get_cached" =>
          Len(last.reqs) = (IF last.hit THEN 0 ELSE 1)

\* C6, amended: get(path) on an unqualified path makes exactly one network
\* request (a GET of path); when the request succeeds the cache entry of path
\* is replaced by the data returned, which is the decoded response, whatever
\* was cached before; when it fails the call raises and the cache is left
\* as it was; a qualified URL is refused with no request.  get_cached makes
\* no request and returns the entry on a hit, and does as get on a miss.
C6_GetFetchesOnceAndStores ==
    [][ /\ last'.op = "get" =>
              /\ last'.reqs = (IF IsQualified(last'.uri) THEN <<>>
                               ELSE <<NetReq("GET", last'.uri, EmptyDoc)>>)
              /\ (last'.exc = "none") = (~IsQualified(last'.uri) /\ GoodResponse(last'.resGet))
              /\ last'.exc = "none" =>
                    /\ last'.ret = Decoded(last'.resGet)
                    /\ DOMAIN cache' = DOMAIN cache \cup {last'.uri}
                    /\ cache'[last'.uri] = last'.ret
                    /\ \A p \in DOMAIN cache \ {last'.uri} : cache'[p] = cache[p]
              /\ last'.exc # "none" => cache' = cache
        /\ last'.op = "get_cached" =>
              IF last'.uri \in DOMAIN cache
              THEN /\ last'.reqs = <<>>
                   /\ last'.exc = "none"
                   /\ last'.ret = cache[last'.uri]
                   /\ cache' = cache
              ELSE /\ last'.reqs = (IF IsQualified(last'.uri) THEN <<>>
                                    ELSE <<NetReq("GET", last'.uri, EmptyDoc)>>)
                   /\ last'.exc = "none" => /\ last'.uri \in DOMAIN cache'
                                            /\ cache'[last'.uri] = last'.ret
    ]_vars

\* A successful get(p) that replaced an entry holding different data.
C6_Witness ==
    /\ last.op = "get"
    /\ last.exc = "none"
    /\ last.hit
    /\ last.uri \in DOMAIN prevGet
    /\ prevGet[last.uri] # last.ret
    /\ cache[last.uri] = last.ret

\* C7: a cache entry is created or replaced only by a successful GET of that
\* same path, and none is ever removed: the cached paths never shrink, and a
\* POST, an action invocation, a failed request or a fetch of another path
\* leaves every existing entry as it was.
C7_CacheChangesOnlyByFetch ==
    [][ LET fetched(p) ==
                /\ last'.op \in {"get", "get_cached", "_execute_action"}
                /\ last'.uri = p
                /\ Gets(last'.reqs) = <<NetReq("GET", p, EmptyDoc)>>
                /\ GoodResponse(last'.resGet)
        IN  /\ \A p \in DOMAIN cache :
                  /\ p \in DOMAIN cache'
                  /\ cache'[p] # cache[p] => last'.op = "get" /\ fetched(p)
            /\ \A p \in DOMAIN cache' \ DOMAIN cache : fetched(p)
            /\ last'.op = "post" => cache' = cache
    ]_vars

\* An action POST was issued while two paths were cached.
C7_Witness ==
    /\ last.op = "_execute_action"
    /\ Posts(last.reqs) # <<>>
    /\ DOMAIN cache = {PathX, PathY}

\* The descriptor of the action named by the completed _execute_action, as
\* the session holds it (the cached copy, fetched by the call on a miss).
HasDescriptor(o) ==
    /\ o.uri \in DOMAIN cache
    /\ "Actions" \in DOMAIN cache[o.uri]
    /\ o.action \in DOMAIN cache[o.uri]["Actions"]
Descriptor(o) == cache[o.uri]["Actions"][o.action]

Advertised(d, pv) == AllowableKey(pv[1]) \in DOMAIN d
Allowed(d, pv) == Advertised(d, pv) /\ pv[2] \in d[AllowableKey(pv[1])]

\* The call passed one parameter, advertised with a set that excludes its value.
OneExcludedValue(o) ==
    /\ o.op = "_execute_action"
    /\ Len(o.params) = 1
    /\ HasDescriptor(o)
    /\ Advertised(Descriptor(o), o.params[1])
    /\ ~Allowed(Descriptor(o), o.params[1])

\* C8 as stated: such a call is rejected with ValueError
\* (InvalidParameterValue) without any network request, whatever the cache.
C8_Original ==
    OneExcludedValue(last) => last.exc = "ValueError" /\ last.reqs = <<>>

\* C8, amended: such a call is rejected with ValueError without any POST;
\* it makes no network request at all when the resource was cached, and
\* exactly one, the GET of the resource, when it was not.
C8_RejectsWithoutPost ==
    OneExcludedValue(last) =>
        /\ last.exc = "ValueError"
        /\ Posts(last.reqs) = <<>>
        /\ last.reqs = (IF last.hit THEN <<>> ELSE <<NetReq("GET", last.uri, EmptyDoc)>>)

\* A rejection on a cached resource, with no request.
C8_Witness ==
    /\ OneExcludedValue(last)
    /\ last.hit
    /\ last.exc = "ValueError"
    /\ last.reqs = <<>>

\* C9: _execute_action issues the POST if and only if the action is in the
\* descriptor and every parameter passed is advertised with its value
\* allowed; a missing action or an unadvertised parameter ends the call with
\* KeyError and no POST, a value outside its set with ValueError and no POST;
\* a valid call issues exactly one POST, to the descriptor's target, with
\* exactly the parameters passed as payload.  Without a resolved resource
\* (the GET failed) nothing is posted.
C9_PostIffValid ==
    last.op = "_execute_action" =>
        LET o == last
            valid == HasDescriptor(o)
                     /\ \A i \in DOMAIN o.params : Allowed(Descriptor(o), o.params[i])
            posted == Posts(o.reqs)
        IN  /\ (posted # <<>>) = valid
            /\ valid =>
                  /\ Len(posted) = 1
                  /\ posted[1].uri = Descriptor(o)["target"]
                  /\ DOMAIN posted[1].json = {o.params[i][1] : i \in DOMAIN o.params}
                  /\ \A i \in DOMAIN o.params : posted[1].json[o.params[i][1]] = o.params[i][2]
            /\ ~valid => o.exc # "none"
            /\ (o.uri \in DOMAIN cache /\ ~HasDescriptor(o)) => o.exc = "KeyError"
            /\ (HasDescriptor(o) /\ ~valid) =>
                  LET bad == CHOOSE i \in DOMAIN o.params :
                                 /\ ~Allowed(Descriptor(o), o.params[i])
                                 /\ \A j \in 1..(i-1) : Allowed(Descriptor(o), o.params[j])
                  IN  o.exc = (IF Advertised(Descriptor(o), o.params[bad])
                               THEN "ValueError" ELSE "KeyError")

\* A valid call with two parameters, posted once.
C9_Witness ==
    /\ last.op = "_execute_action"
    /\ Len(last.params) = 2
    /\ Len(Posts(last.reqs)) = 1
    /\ last.exc = "none"

(***************************************************************************)
(* One call of power_cycle_system, wait_for_power_state or                 *)
(* wait_for_job_state on a fresh session, step by step: every network      *)
(* request and every sleep is a step.  The server answers each request as  *)
(* it likes; a request takes call.latency clock units, a sleep            *)
(* PollInterval.                                                           *)
(***************************************************************************)
Timeouts == {NoTimeout} \cup {<<t>> : t \in 0..MaxTimeout}

\* Job identifiers passed to wait_for_job_state: a raw id and a job uri.
JobId == <<"J","I","D","_","1">>
JobIds == {JobId, JoinSlash(RESOURCES_jobs, JobId)}

\* Messages a job document may carry.
MsgFailed == <<"J","o","b"," ","F","a","i","l","e","d",".">>
MsgOther == <<"N","e","w">>
JobDocs == {[Message |-> m] : m \in {MsgScheduled, MsgRunning, MsgFinished, MsgFailed, MsgOther}}

\* The call ends: it returns ("returned") or raises e.
End(e) ==
    /\ pc' = "done"
    /\ outcome' = e
    /\ UNCHANGED <<phase, want, time_start>>

Goto(label) ==
    /\ pc' = label
    /\ UNCHANGED <<phase, want, time_start, outcome>>

\* wait_for_power_state is entered, mutated: the forced wait keeps the
\* time_start of the graceful wait (one shared deadline).
EnterWaitShared(w, ph, t) ==
    /\ pc' = "wps_poll"
    /\ phase' = ph
    /\ want' = w
    /\ time_start' = (IF ph = "forced" THEN time_start ELSE t)
    /\ polls' = 0
    /\ sleeps' = 0
    /\ UNCHANGED outcome

\* wait_for_power_state(w, timeout) is entered at clock t, from the call
\* site ph: time_start = time.time()
EnterWait(w, ph, t) ==
    /\ pc' = "wps_poll"
    /\ phase' = ph
    /\ want' = w
    /\ time_start' = t
    /\ polls' = 0
    /\ sleeps' = 0
    /\ UNCHANGED outcome

\* One round of a polling loop after the fetch, mutated: a job seen in a
\* terminal state other than the wanted one ends the wait with an error.
wait_verdict_terminal_ends(w, have, timeout, t, start) ==
    IF w = have THEN "break"
    ELSE IF have \in {"failed", "finished"} THEN "JobEnded"
    ELSE IF TimedOut(timeout, t, start) THEN "TimeoutError"
    ELSE "sleep"

\* One round of a polling loop after the fetch, mutated: the deadline is
\* tested before the state is compared.
wait_verdict_deadline_first(w, have, timeout, t, start) ==
    IF TimedOut(timeout, t, start) THEN "TimeoutError"
    ELSE IF w = have THEN "break"
    ELSE "sleep"

\* One round of a polling loop after the fetch, mutated: the deadline is
\* never checked.
wait_verdict_no_deadline(w, have, timeout, t, start) ==
    IF w = have THEN "break" ELSE "sleep"

\* One round of a polling loop after the fetch: break, raise TimeoutError,
\* or sleep.
wait_verdict(w, have, timeout, t, start) ==
    IF w = have THEN "break"
    ELSE IF TimedOut(timeout, t, start) THEN "TimeoutError"
    ELSE "sleep"

\* power_cycle_system after its first fetch, mutated: the shutdown is
\* requested whatever the power state.
after_first_fetch_always(ps) == "pcs_graceful"

\* power_cycle_system after its first fetch: if system['PowerState'] == 'On'
after_first_fetch(ps) == IF ps = "On" THEN "pcs_graceful" ELSE "pcs_on"

\* Where a wait's end leads, mutated: when the wait that follows
\* GracefulShutdown times out the system is powered on without ForceOff.
after_wait_skip_force(ph, verdict) ==
    IF verdict = "break"
    THEN (IF ph \in {"graceful", "forced"} THEN "pcs_on" ELSE "done")
    ELSE IF verdict = "TimeoutError" /\ ph = "graceful" THEN "pcs_on"
    ELSE "done"

\* Where a wait's end leads, mutated: every timed-out wait for 'Off' is
\* answered by another ForceOff.
after_wait_retry(ph, verdict) ==
    IF verdict = "break"
    THEN (IF ph \in {"graceful", "forced"} THEN "pcs_on" ELSE "done")
    ELSE IF verdict = "TimeoutError" /\ ph \in {"graceful", "forced"} THEN "pcs_force"
    ELSE "done"

\* Where the end of a wait leads: the wait for 'Off' after GracefulShutdown
\* is the only one whose TimeoutError is caught.
after_wait(ph, verdict) ==
    IF verdict = "break"
    THEN (IF ph \in {"graceful", "forced"} THEN "pcs_on" ELSE "done")
    ELSE IF verdict = "TimeoutError" /\ ph = "graceful" THEN "pcs_force"
    ELSE "done"

StartPowerCycle ==
    /\ pc = "idle"
    /\ \E t \in Timeouts, l \in Latencies :
          call' = [op |-> "power_cycle_system", timeout |-> t, jid |-> <<>>,
                   latency |-> l]
    /\ pc' = "pcs_fetch"
    /\ UNCHANGED <<phase, want, time_start, now, outcome, posts, polls, sleeps,
                   slept, first, offSeen, tGraceful, tForced, lastPoll>>
    /\ UNCHANGED <<sessionVars, server, input, output>>

StartWaitForPowerState ==
    /\ pc = "idle"
    /\ \E t \in Timeouts, w \in {"On", "Off"}, l \in Latencies :
          /\ call' = [op |-> "wait_for_power_state", timeout |-> t, jid |-> <<>>,
                      latency |-> l]
          /\ EnterWait(w, "alone", now)
    /\ UNCHANGED <<now, posts, slept, first, offSeen, tGraceful, tForced, lastPoll>>
    /\ UNCHANGED <<sessionVars, server, input, output>>

StartWaitForJobState ==
    /\ pc = "idle"
    /\ \E t \in Timeouts, w \in {"finished", "running"}, jid \in JobIds, l \in Latencies :
          /\ call' = [op |-> "wait_for_job_state", timeout |-> t, jid |-> jid,
                      latency |-> l]
          /\ want' = w
    /\ pc' = "wjs_poll"
    /\ phase' = "job"
    /\ time_start' = now
    /\ UNCHANGED <<now, outcome, posts, polls, sleeps, slept, first, offSeen,
                   tGraceful, tForced, lastPoll>>
    /\ UNCHANGED <<sessionVars, server, input, output>>

\* system = self.get_system(); if system['PowerState'] == 'On': ...
PowerCycleFetch ==
    /\ pc = "pcs_fetch"
    /\ \E res \in GetResponses(SystemDocs) :
          LET r == get_system(cache, res)
          IN  /\ cache' = r.cache
              /\ now' = now + call.latency
              /\ IF r.exc # "none"
                 THEN End(r.exc) /\ UNCHANGED first
                 ELSE IF "PowerState" \notin DOMAIN r.ret
                 THEN End("KeyError") /\ UNCHANGED first
                 ELSE /\ first' = r.ret["PowerState"]
                      /\ Goto(after_first_fetch(r.ret["PowerState"]))
    /\ UNCHANGED <<call, posts, polls, sleeps, slept, offSeen, tGraceful, tForced,
                   lastPoll, last, lastGet, prevGet,
                   server, input, output>>

\* The server's answer to the GET reset_system makes when the system
\* resource is not cached.
SystemResponsesOnMiss ==
    IF RESOURCES_system \in DOMAIN cache THEN {HttpError} ELSE GetResponses(SystemDocs)

\* reset_system followed by the wait, mutated: a reset that raised is ignored
\* and the wait is entered all the same.
ResetAndEnterWaitAnyway(reset_type, w, ph) ==
    \E resGet \in SystemResponsesOnMiss, resPost \in PostResponses :
        LET r == reset_system(cache, reset_type, resGet, resPost)
            t == now + Len(r.reqs) * call.latency
        IN  /\ cache' = r.cache
            /\ last' = Done("reset_system", RESOURCES_system, "#ComputerSystem.Reset",
                            <<(<<"ResetType", reset_type>>)>>, resGet, r)
            /\ now' = t
            /\ posts' = posts \o Posts(r.reqs)
            /\ EnterWait(w, ph, t)

\* self.reset_system(reset_type); self.wait_for_power_state(w, timeout=timeout)
\* up to the wait's time_start = time.time().
ResetAndEnterWait(reset_type, w, ph) ==
    \E resGet \in SystemResponsesOnMiss, resPost \in PostResponses :
        LET r == reset_system(cache, reset_type, resGet, resPost)
            t == now + Len(r.reqs) * call.latency
        IN  /\ cache' = r.cache
            /\ last' = Done("reset_system", RESOURCES_system, "#ComputerSystem.Reset",
                            <<(<<"ResetType", reset_type>>)>>, resGet, r)
            /\ now' = t
            /\ posts' = posts \o Posts(r.reqs)
            /\ IF r.exc # "none"
               THEN End(r.exc) /\ UNCHANGED <<polls, sleeps>>
               ELSE EnterWait(w, ph, t)

PowerCycleGraceful ==
    /\ pc = "pcs_graceful"
    /\ ResetAndEnterWait("GracefulShutdown", "Off", "graceful")
    /\ tGraceful' = now'
    /\ UNCHANGED <<call, slept, first, offSeen, tForced, lastPoll, lastGet, prevGet,
                   server, input, output>>

PowerCycleForceOff ==
    /\ pc = "pcs_force"
    /\ ResetAndEnterWait("ForceOff", "Off", "forced")
    /\ tForced' = now'
    /\ UNCHANGED <<call, slept, first, offSeen, tGraceful, lastPoll, lastGet, prevGet,
                   server, input, output>>

PowerCycleOn ==
    /\ pc = "pcs_on"
    /\ ResetAndEnterWait("On", "On", "poweron")
    /\ UNCHANGED <<call, slept, first, offSeen, tGraceful, tForced, lastPoll,
                   lastGet, prevGet,
                   server, input, output>>

\* What follows a poll whose verdict is v.
AfterPoll(v) ==
    IF v = "sleep" THEN Goto(IF phase = "job" THEN "wjs_sleep" ELSE "wps_sleep")
    ELSE IF v \in {"break", "TimeoutError"} /\ after_wait(phase, v) # "done"
    THEN Goto(after_wait(phase, v))
    ELSE End(IF v = "break" THEN "returned" ELSE v)

\* wait_for_power_state: one round of the loop up to the sleep.
WaitForPowerStatePoll ==
    /\ pc = "wps_poll"
    /\ \E res \in GetResponses(SystemDocs) :
          LET r == get_system(cache, res)
              t == now + call.latency
              read == r.exc = "none" /\ "PowerState" \in DOMAIN r.ret
              have == IF read THEN r.ret["PowerState"] ELSE ""
              v == IF r.exc # "none" THEN r.exc
                   ELSE IF ~read THEN "KeyError"
                   ELSE wait_verdict(want, have, call.timeout, t, time_start)
          IN  /\ cache' = r.cache
              /\ now' = t
              /\ polls' = polls + 1
              /\ offSeen' = (offSeen \/ have = "Off")
              /\ lastPoll' = [phase |-> phase, have |-> have, at |-> t, verdict |-> v]
              /\ AfterPoll(v)
    /\ UNCHANGED <<call, posts, sleeps, slept, first, tGraceful, tForced, last,
                   lastGet, prevGet,
                   server, input, output>>

\* time.sleep(5) in wait_for_power_state
WaitForPowerStateSleep ==
    /\ pc = "wps_sleep"
    /\ Truthy(call.timeout) \/ now + PollInterval <= MaxClock
    /\ now' = now + PollInterval
    /\ sleeps' = sleeps + 1
    /\ slept' = slept + 1
    /\ Goto("wps_poll")
    /\ UNCHANGED <<call, posts, polls, first, offSeen, tGraceful, tForced, lastPoll>>
    /\ UNCHANGED <<sessionVars, server, input, output>>

\* wait_for_job_state: one round of the loop up to the sleep.
WaitForJobStatePoll ==
    /\ pc = "wjs_poll"
    /\ \E res \in GetResponses(JobDocs) :
          LET r == get_job(cache, call.jid, res)
              t == now + call.latency
              read == r.exc = "none" /\ "Message" \in DOMAIN r.ret
              have == IF read THEN get_job_state(r.ret) ELSE ""
              v == IF r.exc # "none" THEN r.exc
                   ELSE IF ~read THEN "KeyError"
                   ELSE wait_verdict(want, have, call.timeout, t, time_start)
          IN  /\ cache' = r.cache
              /\ now' = t
              /\ polls' = polls + 1
              /\ lastPoll' = [phase |-> phase, have |-> have, at |-> t, verdict |-> v]
              /\ AfterPoll(v)
    /\ UNCHANGED <<call, posts, sleeps, slept, first, offSeen, tGraceful, tForced,
                   last, lastGet, prevGet,
                   server, input, output>>

\* time.sleep(5) in wait_for_job_state
WaitForJobStateSleep ==
    /\ pc = "wjs_sleep"
    /\ Truthy(call.timeout) \/ now + PollInterval <= MaxClock
    /\ now' = now + PollInterval
    /\ sleeps' = sleeps + 1
    /\ slept' = slept + 1
    /\ Goto("wjs_poll")
    /\ UNCHANGED <<call, posts, polls, first, offSeen, tGraceful, tForced, lastPoll>>
    /\ UNCHANGED <<sessionVars, server, input, output>>

NextRun ==
    \/ StartPowerCycle
    \/ StartWaitForPowerState
    \/ StartWaitForJobState
    \/ PowerCycleFetch
    \/ PowerCycleGraceful
    \/ PowerCycleForceOff
    \/ PowerCycleOn
    \/ WaitForPowerStatePoll
    \/ WaitForPowerStateSleep
    \/ WaitForJobStatePoll
    \/ WaitForJobStateSleep

SpecRun == Init /\ [][NextRun]_vars

(***************************************************************************)
(* The power-cycle orchestrator and the polling loops.                     *)
(***************************************************************************)
\* The ResetType values POSTed so far, in order.
Resets == [i \in DOMAIN posts |-> posts[i].json["ResetType"]]

IsPrefix(a, b) == Len(a) <= Len(b) /\ SubSeq(b, 1, Len(a)) = a

\* Exceptions other than TimeoutError that end a call.
Failures == {"OperationFailed", "ValueError", "KeyError", "JSONDecodeError"}

\* A power cycle with timeout=10 whose first fetch reported 'On', during
\* which every request was answered with success and no poll reported 'Off'.
C1_Scenario ==
    /\ call.op = "power_cycle_system"
    /\ call.timeout = <<10>>
    /\ first = "On"
    /\ ~offSeen
    /\ outcome \notin Failures

\* C1: in that scenario the resets issued are GracefulShutdown, then
\* ForceOff, and nothing else (no 'On', no third reset); when the call has
\* ended it has raised TimeoutError after exactly those two; and it does
\* end: until then a next step is always possible, and the two waits sleep
\* at most three times each.
C1_TwoResetsThenTimeout ==
    C1_Scenario =>
        /\ IsPrefix(Resets, <<"GracefulShutdown", "ForceOff">>)
        /\ pc = "done" => /\ outcome = "TimeoutError"
                          /\ Resets = <<"GracefulShutdown", "ForceOff">>
        /\ pc # "done" => ENABLED NextRun
        /\ sleeps <= 3
        /\ slept <= 6

\* The scenario's end: both waits for 'Off' timed out.
C1_Witness ==
    /\ C1_Scenario
    /\ pc = "done"
    /\ outcome = "TimeoutError"
    /\ lastPoll.phase = "forced"
    /\ Resets = <<"GracefulShutdown", "ForceOff">>

\* C2: when the first fetch of power_cycle_system reports 'Off', neither
\* GracefulShutdown nor ForceOff is ever issued: the only reset is 'On', and
\* the only wait is the wait for 'On' that follows it.
C2_OffSkipsShutdown ==
    (call.op = "power_cycle_system" /\ first = "Off") =>
        /\ IsPrefix(Resets, <<"On">>)
        /\ pc \notin {"pcs_graceful", "pcs_force"}
        /\ pc \in {"wps_poll", "wps_sleep"} =>
              /\ phase = "poweron"
              /\ want = "On"
              /\ Resets = <<"On">>

\* The system was off, 'On' was posted, and the wait for 'On' is polling.
C2_Witness ==
    /\ call.op = "power_cycle_system"
    /\ first = "Off"
    /\ Resets = <<"On">>
    /\ pc = "wps_sleep"
    /\ polls >= 1

\* C3: the wait that follows ForceOff measures its timeout from its own
\* start: it raises TimeoutError only at a poll later than timeout after
\* reset_system('ForceOff') returned, and a poll that reads 'Off' ends it
\* with success, however long ago GracefulShutdown was issued.
C3_ForcedWaitOwnWindow ==
    /\ (phase = "forced" /\ pc \in {"wps_poll", "wps_sleep"}) => time_start = tForced
    /\ lastPoll.phase = "forced" =>
          /\ lastPoll.verdict = "TimeoutError" => lastPoll.at - tForced > call.timeout[1]
          /\ lastPoll.have = "Off" => lastPoll.verdict = "break"

\* 'Off' read at a later poll of the forced wait, within timeout of its
\* start and more than timeout after GracefulShutdown.
C3_Witness ==
    /\ lastPoll.phase = "forced"
    /\ lastPoll.have = "Off"
    /\ lastPoll.verdict = "break"
    /\ polls >= 2
    /\ lastPoll.at - tForced <= call.timeout[1]
    /\ lastPoll.at - tGraceful > call.timeout[1]
    /\ pc = "pcs_on"

\* A power cycle with a positive timeout on the model clock of C4: requests
\* take no time, a sleep takes PollInterval.
C4_Scenario ==
    /\ call.op = "power_cycle_system"
    /\ Truthy(call.timeout)
    /\ call.latency = 0

\* C4 as stated: the time spent from the start of the call is at most
\* 3 x timeout.
C4_Original == C4_Scenario => now <= 3 * call.timeout[1]

\* C4, amended: the time spent is at most 3 x (timeout + PollInterval): each
\* of the three waits may overrun its timeout by up to one poll interval,
\* the deadline being tested only after a poll and with a strict >.
C4_BoundedByThreeWaits ==
    C4_Scenario =>
        /\ now = PollInterval * slept
        /\ now <= 3 * (call.timeout[1] + PollInterval)
        /\ (pc \in {"wps_poll", "wps_sleep"}) =>
              now - time_start <= call.timeout[1] + PollInterval

\* A call with timeout=10 that ended 45 clock units after it began.
C4_Witness ==
    /\ C4_Scenario
    /\ pc = "done"
    /\ call.timeout = <<10>>
    /\ now = 45
    /\ outcome = "TimeoutError"

\* A wait with timeout=1 called on its own.
C10_Scenario ==
    /\ call.op \in {"wait_for_power_state", "wait_for_job_state"}
    /\ call.timeout = <<1>>

\* C10 as stated: the wait raises TimeoutError after exactly one poll and
\* no sleep.
C10_Original ==
    (C10_Scenario /\ outcome = "TimeoutError") => polls = 1 /\ sleeps = 0

\* C10, amended: the wait raises TimeoutError at the first poll that ends
\* more than 1 clock unit after the wait began.  When a fetch takes no more
\* than the timeout (it takes no time on the model clock) that is the second
\* poll, after exactly one sleep; the first poll raises it, with no sleep,
\* only when its own fetch took longer than the timeout.  The wait never
\* makes a third poll or a second sleep.
C10_TimeoutAtSecondPoll ==
    C10_Scenario =>
        /\ polls <= 2
        /\ sleeps <= 1
        /\ outcome = "TimeoutError" =>
              IF call.latency > 1 THEN polls = 1 /\ sleeps = 0
                                  ELSE polls = 2 /\ sleeps = 1
        /\ (pc = "done" /\ lastPoll.have # want /\ outcome \notin Failures) =>
              outcome = "TimeoutError"

\* A job wait with timeout=1 and instant fetches that timed out at its
\* second poll.
C10_Witness ==
    /\ C10_Scenario
    /\ call.op = "wait_for_job_state"
    /\ call.latency = 0
    /\ outcome = "TimeoutError"
    /\ polls = 2
    /\ sleeps = 1

\* A wait called on its own.
WaitAlone == call.op \in {"wait_for_power_state", "wait_for_job_state"}

\* C11: when the first poll of a wait already observes the target state, the
\* wait returns after that one fetch, without sleeping and without raising
\* TimeoutError, whatever the timeout (None, 0 or positive, even one the
\* fetch itself outlasted); and a poll that observes the target always ends
\* its wait with success.
C11_FirstPollHitReturns ==
    /\ (lastPoll.phase = phase /\ polls >= 1 /\ lastPoll.have = want) =>
          lastPoll.verdict = "break"
    /\ (WaitAlone /\ polls = 1 /\ lastPoll.have = want) =>
          /\ pc = "done"
          /\ outcome = "returned"
          /\ sleeps = 0
          /\ slept = 0
          /\ ~ENABLED NextRun

\* A job wait with timeout=1 whose only fetch took longer than that and found
\* the job in the target state.
C11_Witness ==
    /\ call.op = "wait_for_job_state"
    /\ call.timeout = <<1>>
    /\ call.latency > 1
    /\ polls = 1
    /\ lastPoll.have = want
    /\ lastPoll.at - time_start > 1
    /\ outcome = "returned"
    /\ sleeps = 0

\* C12 as stated: whenever a timeout is given, 0 included, a wait whose polls
\* never observe the target ends with TimeoutError: a poll that ends after
\* the deadline does not go on to sleep, so the wait never lasts longer than
\* the timeout, one sleep and one fetch.
C12_Original ==
    (WaitAlone /\ call.timeout # NoTimeout) =>
        /\ lastPoll.verdict = "sleep" => lastPoll.at - time_start <= call.timeout[1]
        /\ now - time_start <= call.timeout[1] + PollInterval + call.latency
        /\ (pc = "done" /\ lastPoll.have # want /\ outcome \notin Failures) =>
              outcome = "TimeoutError"

\* C13: nothing is retried.  A step is a reset (one call of reset_system) or
\* one round of a polling loop.  ForceOff is requested only right after the
\* wait that followed GracefulShutdown raised TimeoutError, and only once;
\* a reset that raises (OperationFailed from its POST, ValueError or KeyError
\* from the validation) and a poll whose fetch raises end the call in that
\* very step with that error; a TimeoutError of any other wait ends it too;
\* and once the call has ended no reset and no poll follows.
C13_NoRetry ==
    [][ /\ pc # "done"
        /\ pc' = "pcs_force" =>
              /\ pc = "wps_poll"
              /\ phase = "graceful"
              /\ lastPoll'.verdict = "TimeoutError"
              /\ Resets = <<"GracefulShutdown">>
        /\ Resets' # Resets =>
              /\ pc \in {"pcs_graceful", "pcs_force", "pcs_on"}
              /\ Len(Resets') = Len(Resets) + 1
              /\ Resets'[Len(Resets')] = "ForceOff" =>
                    pc = "pcs_force" /\ "ForceOff" \notin {Resets[i] : i \in DOMAIN Resets}
        /\ (pc \in {"pcs_graceful", "pcs_force", "pcs_on"} /\ last'.exc # "none") =>
              /\ pc' = "done"
              /\ outcome' = last'.exc
              /\ polls' = polls
              /\ Len(Resets') <= Len(Resets) + 1
        /\ (pc \in {"wps_poll", "wjs_poll"} /\ lastPoll'.verdict \in Failures) =>
              /\ pc' = "done"
              /\ outcome' = lastPoll'.verdict
              /\ Resets' = Resets
        /\ (pc \in {"wps_poll", "wjs_poll"} /\ lastPoll'.verdict = "TimeoutError"
                                             /\ phase # "graceful") =>
              /\ pc' = "done"
              /\ outcome' = "TimeoutError"
              /\ Resets' = Resets
    ]_vars

\* The ForceOff POST was answered with an HTTP error after the graceful wait
\* had timed out, and the call ended there.
C13_Witness ==
    /\ call.op = "power_cycle_system"
    /\ pc = "done"
    /\ outcome = "OperationFailed"
    /\ last.op = "reset_system"
    /\ last.exc = "OperationFailed"
    /\ Resets = <<"GracefulShutdown", "ForceOff">>
    /\ lastPoll.phase = "graceful"
    /\ lastPoll.verdict = "TimeoutError"

(***************************************************************************)
(* Pure functions of the client, each applied once to an argument chosen   *)
(* at the start.                                                           *)
(***************************************************************************)
\* Job messages: the fixed vocabulary, 'failed' in several letter cases, and
\* other text, alone or with text before and after.
MsgCores ==
    {<<>>, MsgScheduled, MsgRunning, MsgFinished, Lower(MsgRunning), MsgOther,
     <<"f","a","i","l","e","d">>, <<"F","A","I","L","E","D">>,
     <<"F","a","i","l","e","d">>, <<"f","A","i","L","e","D">>,
     <<"f","a","i","l","e">>, <<"f","a","i","l"," ","e","d">>}
MsgBefore == {<<>>, <<"x">>, <<"J","o","b"," ">>}
MsgAfter == {<<>>, <<"d">>, <<".">>, <<" ","F","a","i","l","e","d">>}
Messages == {a \o c \o b : a \in MsgBefore, c \in MsgCores, b \in MsgAfter}

JobStateInputs == {[fn |-> "get_job_state", arg |-> [Message |-> m]] : m \in Messages}

\* self.get_job_state(job)
ApplyGetJobState ==
    /\ input.fn = "get_job_state"
    /\ ~output.done
    /\ output' = [done |-> TRUE, val |-> get_job_state(input.arg)]
    /\ UNCHANGED <<input, server, sessionVars, runVars>>

\* The message holds f-a-i-l-e-d at some place, each letter in either case.
FailedAnyCase(m) ==
    \E i \in 1..(Len(m) - 5) :
        /\ m[i] \in {"f", "F"}
        /\ m[i+1] \in {"a", "A"}
        /\ m[i+2] \in {"i", "I"}
        /\ m[i+3] \in {"l", "L"}
        /\ m[i+4] \in {"e", "E"}
        /\ m[i+5] \in {"d", "D"}

\* C14: get_job_state maps every message to exactly one member of JOB_STATE:
\* failed when the message holds 'failed' in any letter case, whatever else
\* it holds; otherwise scheduled, running or finished when the message is
\* exactly the scheduled, in-progress or completed text; unknown in every
\* other case.
C14_JobStateTotal ==
    (input.fn = "get_job_state" /\ output.done) =>
        LET m == input.arg["Message"]
            st == output.val
        IN  /\ st \in JOB_STATE
            /\ FailedAnyCase(m) => st = "failed"
            /\ ~FailedAnyCase(m) =>
                  st = (IF m = MsgScheduled THEN "scheduled"
                        ELSE IF m = MsgRunning THEN "running"
                        ELSE IF m = MsgFinished THEN "finished"
                        ELSE "unknown")

\* The completed text followed by 'Failed' in mixed case is classified failed.
C14_Witness ==
    /\ input.fn = "get_job_state"
    /\ output.done
    /\ StartsWith(input.arg["Message"], MsgFinished)
    /\ ~Contains(input.arg["Message"], <<"f","a","i","l","e","d">>)
    /\ FailedAnyCase(input.arg["Message"])
    /\ output.val = "failed"

\* Responses the server may give to a request: an error status or 304, with
\* no body, a body that is not JSON, or a JSON body with or without the
\* vendor's error structure.
Entry1 == [MessageId |-> "IDRAC.1", Message |-> "first"]
Entry2 == [MessageId |-> "IDRAC.2", Message |-> "second"]
ErrorDoc(info) == [error |-> ("@Message.ExtendedInfo" :> info)]
ErrorBodies ==
    {<<"empty", EmptyDoc>>, <<"garbage", EmptyDoc>>, <<"json", EmptyDoc>>,
     <<"json", [error |-> EmptyDoc]>>, <<"json", [other |-> EmptyDoc]>>}
    \cup {<<"json", ErrorDoc(info)>> :
            info \in {<<>>, <<Entry1>>, <<Entry1, Entry2>>, <<Entry2, Entry1>>,
                      <<Entry1, Entry1>>}}
ErrorStatuses == {304, 400, 404, 500, 503}
RequestInputs ==
    {[fn |-> "request",
      arg |-> [method |-> m, res |-> Response(st, "application/json", b[1], b[2], <<>>)]] :
        m \in {"GET", "POST"}, st \in ErrorStatuses, b \in ErrorBodies}

\* self.request(method, uri): the exception raised and, when it is
\* OperationFailed, its errors.
ApplyRequest ==
    /\ input.fn = "request"
    /\ ~output.done
    /\ LET r == request(input.arg.method, PathX, input.arg.res)
       IN  output' = [done |-> TRUE,
                      val |-> [exc |-> r.exc,
                               errors |-> IF r.exc = "OperationFailed"
                                          THEN OperationFailed_init(input.arg.res).errors
                                          ELSE <<>>]]
    /\ UNCHANGED <<input, server, sessionVars, runVars>>

\* The (MessageId, Message) pairs of the vendor error structure of a decoded
\* body, in its order; none when the body has no such structure.
VendorPairs(res) ==
    IF /\ res.body = "json"
       /\ "error" \in DOMAIN res.json
       /\ "@Message.ExtendedInfo" \in DOMAIN res.json["error"]
    THEN LET info == res.json["error"]["@Message.ExtendedInfo"]
         IN  [i \in DOMAIN info |-> <<info[i]["MessageId"], info[i]["Message"]>>]
    ELSE <<>>

\* C16 as stated: every response outside 2xx is raised as OperationFailed,
\* holding the (message-id, message) pairs of the vendor error structure in
\* the server's order, and no pairs when the body is absent or unparsable.
C16_Original ==
    (input.fn = "request" /\ output.done) =>
        /\ output.val.exc = "OperationFailed"
        /\ output.val.errors = VendorPairs(input.arg.res)

\* Job identifiers: raw ids, absolute paths, the empty string.
JobArgs ==
    {<<>>, <<"J","I","D","_","1">>, <<"/">>, <<"/","j","/","J","I","D","_","1">>,
     <<"J","I","D","/","1">>, <<"j","/">>,
     JoinSlash(RESOURCES_jobs, <<"J","I","D","_","1">>), RESOURCES_jobs}
JobUriInputs == {[fn |-> "get_job", arg |-> jid] : jid \in JobArgs}

\* The uri get_job fetches for jid, and the one it fetches when given that
\* uri as jid.
ApplyJobUri ==
    /\ input.fn = "get_job"
    /\ ~output.done
    /\ output' = [done |-> TRUE,
                  val |-> [once |-> JobUri(input.arg), twice |-> JobUri(JobUri(input.arg))]]
    /\ UNCHANGED <<input, server, sessionVars, runVars>>

\* C19: the uri get_job fetches is jid itself when jid starts with '/', is
\* RESOURCES.jobs + '/' + jid otherwise, and resolving that uri again gives
\* the same uri.
C19_JobUriIdempotent ==
    (input.fn = "get_job" /\ output.done) =>
        LET jid == input.arg
        IN  /\ (jid # <<>> /\ jid[1] = "/") => output.val.once = jid
            /\ ~(jid # <<>> /\ jid[1] = "/") =>
                  output.val.once = RESOURCES_jobs \o <<"/">> \o jid
            /\ output.val.twice = output.val.once

\* A raw job id was joined under the jobs container and resolving the
\* result again left it as it was.
C19_Witness ==
    /\ input.fn = "get_job"
    /\ output.done
    /\ input.arg = <<"J","I","D","_","1">>
    /\ output.val.once # input.arg
    /\ output.val.twice = output.val.once

InitPure ==
    \/ \E i \in JobStateInputs : InitState(<<>>, i)
    \/ \E i \in RequestInputs : InitState(<<>>, i)
    \/ \E i \in JobUriInputs : InitState(<<>>, i)

NextPure ==
    \/ ApplyGetJobState
    \/ ApplyRequest
    \/ ApplyJobUri

SpecPure == InitPure /\ [][NextPure]_vars

(***************************************************************************)
(* Storage accessors and initialize_virtual_disk.  srv is what the server  *)
(* holds while the call runs: uri -> the response to a GET of it.          *)
(***************************************************************************)
\* RESOURCES.storage
RESOURCES_storage == <<"/","r","e","d","f","i","s","h","/","v","1","/","S","y","s","t","e","m","s","/","S","y","s","t","e","m",".","E","m","b","e","d","d","e","d",".","1","/","S","t","o","r","a","g","e">>

\* Python's None as a return value.
None == <<>>

\* s.split(c): the pieces of s between the occurrences of the character c.
RECURSIVE Split(_, _)
Split(s, c) ==
    IF \A i \in 1..Len(s) : s[i] # c THEN <<s>>
    ELSE LET i == CHOOSE k \in 1..Len(s) : s[k] = c /\ \A j \in 1..(k-1) : s[j] # c
         IN  <<SubSeq(s, 1, i - 1)>> \o Split(SubSeq(s, i + 1, Len(s)), c)

\* The server's answer to a GET of uri: what it holds, else an HTTP error.
Answer(srv, uri) == IF uri \in DOMAIN srv THEN srv[uri] ELSE HttpError

\* In the operators below a local variable of the code that is assigned
\* once and read several times (g = self.get_cached(...)) is bound as
\* CHOOSE r \in {body : g \in {value}} : TRUE, which is body with g standing
\* for value.

\* The loop of _extract_members from member i on; acc holds the session
\* cache, the members collected and the requests made so far.
RECURSIVE extract_from(_, _, _, _, _, _)
extract_from(acc, members, i, detail, cached, srv) ==
    IF i > Len(members) THEN acc
    ELSE IF "@odata.id" \notin DOMAIN members[i] THEN Raise(acc.cache, "KeyError", acc.reqs)
    ELSE LET uri == members[i]["@odata.id"]
         IN  IF ~detail
             THEN extract_from([acc EXCEPT !.ret = Append(@, uri)],
                               members, i + 1, detail, cached, srv)
             ELSE CHOOSE r \in
                    {IF g.exc # "none" THEN Raise(g.cache, g.exc, acc.reqs \o g.reqs)
                     ELSE CHOOSE r2 \in
                            {extract_from(next, members, i + 1, detail, cached, srv) :
                               next \in {Return(g.cache, Append(acc.ret, g.ret),
                                                acc.reqs \o g.reqs)}} : TRUE :
                       g \in {IF cached THEN get_cached(acc.cache, uri, Answer(srv, uri))
                                        ELSE get(acc.cache, uri, Answer(srv, uri))}} : TRUE

\* IDRAC._extract_members(data, member_attr, detail, cache), after the
\* requests reqs the caller has made.
_extract_members(c, data, member_attr, detail, cached, srv, reqs) ==
    IF member_attr \notin DOMAIN data THEN Raise(c, "KeyError", reqs)
    ELSE CHOOSE r \in
           {extract_from(acc, data[member_attr], 1, detail, cached, srv) :
              acc \in {Return(c, <<>>, reqs)}} : TRUE

\* IDRAC.list_storage_controllers(detail)
list_storage_controllers(c, detail, srv) ==
    CHOOSE r \in
      {IF g.exc # "none" THEN g
       ELSE _extract_members(g.cache, g.ret, "Members", detail, TRUE, srv, g.reqs) :
         g \in {get_cached(c, RESOURCES_storage, Answer(srv, RESOURCES_storage))}} : TRUE

\* '{}/Volumes'.format(uri)
VolumesUri(uri) == uri \o <<"/","V","o","l","u","m","e","s">>

\* IDRAC.list_virtual_disks(uri, detail)
list_virtual_disks(c, uri, detail, srv) ==
    CHOOSE r \in
      {IF g.exc # "none" THEN g
       ELSE _extract_members(g.cache, g.ret, "Members", detail, TRUE, srv, g.reqs) :
         g \in {get_cached(c, VolumesUri(uri), Answer(srv, VolumesUri(uri)))}} : TRUE

\* The loops of list_all_virtual_disks from controller i on.
RECURSIVE all_disks_from(_, _, _, _)
all_disks_from(acc, controllers, i, srv) ==
    IF i > Len(controllers) THEN acc
    ELSE CHOOSE r \in
           {IF v.exc # "none" THEN Raise(v.cache, v.exc, acc.reqs \o v.reqs)
            ELSE CHOOSE r2 \in
                   {all_disks_from(next, controllers, i + 1, srv) :
                      next \in {Return(v.cache, acc.ret \o v.ret, acc.reqs \o v.reqs)}} : TRUE :
              v \in {list_virtual_disks(acc.cache, controllers[i], TRUE, srv)}} : TRUE

\* IDRAC.list_all_virtual_disks(detail): detail is not used; the disks of
\* each controller are listed with detail=True.
list_all_virtual_disks(c, detail, srv) ==
    CHOOSE r \in
      {IF cs.exc # "none" THEN cs
       ELSE CHOOSE r2 \in
              {all_disks_from(acc, cs.ret, 1, srv) :
                 acc \in {Return(cs.cache, <<>>, cs.reqs)}} : TRUE :
         cs \in {list_storage_controllers(c, FALSE, srv)}} : TRUE

\* self.get(x) where x is a decoded resource (a dict), not a path:
\* IDRAC.request evaluates '://' in x, a test on the keys of a dict, and then
\* x.startswith, which a dict does not have.
get_of_resource(c, x) ==
    IF "://" \in DOMAIN x THEN Raise(c, "ValueError", <<>>)
    ELSE Raise(c, "AttributeError", <<>>)

\* The loop of get_virtual_disk_by_name / get_virtual_disk_by_id from disk i
\* on: key is 'Name' or 'Id'.
RECURSIVE find_disk_from(_, _, _, _, _)
find_disk_from(acc, disks, i, key, wanted) ==
    IF i > Len(disks) THEN Return(acc.cache, None, acc.reqs)
    ELSE CHOOSE r \in
           {IF g.exc # "none" THEN Raise(g.cache, g.exc, acc.reqs \o g.reqs)
            ELSE IF key \notin DOMAIN g.ret
            THEN Raise(g.cache, "KeyError", acc.reqs \o g.reqs)
            ELSE IF g.ret[key] = wanted
            THEN Return(g.cache, g.ret, acc.reqs \o g.reqs)
            ELSE CHOOSE r2 \in
                   {find_disk_from(next, disks, i + 1, key, wanted) :
                      next \in {Return(g.cache, None, acc.reqs \o g.reqs)}} : TRUE :
              g \in {get_of_resource(acc.cache, disks[i])}} : TRUE

\* IDRAC.get_virtual_disk_by_name(want_name)
get_virtual_disk_by_name(c, want_name, srv) ==
    CHOOSE r \in
      {IF l.exc # "none" THEN l ELSE find_disk_from(l, l.ret, 1, "Name", want_name) :
         l \in {list_all_virtual_disks(c, FALSE, srv)}} : TRUE

\* IDRAC.get_virtual_disk_by_id(want_id)
get_virtual_disk_by_id(c, want_id, srv) ==
    CHOOSE r \in
      {IF l.exc # "none" THEN l ELSE find_disk_from(l, l.ret, 1, "Id", want_id) :
         l \in {list_all_virtual_disks(c, FALSE, srv)}} : TRUE

\* The reading of the action's response, mutated: the test for 'JID' is
\* left out.
job_id_unchecked(a, reqs) ==
    IF a.exc # "none" THEN Raise(a.cache, a.exc, reqs)
    ELSE LET pieces == Split(a.ret["_location"], "/")
         IN  Return(a.cache, pieces[Len(pieces)], reqs)

\* What initialize_virtual_disk does with the action's response: the job id
\* is the last piece of res['_location'], which must hold 'JID'.
job_id_of(a, reqs) ==
    IF a.exc # "none" THEN Raise(a.cache, a.exc, reqs)
    ELSE IF ~Contains(a.ret["_location"], <<"J","I","D">>)
    THEN Raise(a.cache, "JobSchedulingFailed", reqs)
    ELSE LET pieces == Split(a.ret["_location"], "/")
         IN  Return(a.cache, pieces[Len(pieces)], reqs)

\* The first half of initialize_virtual_disk, mutated: the disk is read with
\* get_cached.
initialize_disk_check_cached(c, uri, res) ==
    LET d == get_cached(c, uri, res)
    IN  IF d.exc # "none" THEN d
        ELSE IF "Operations" \notin DOMAIN d.ret THEN Raise(d.cache, "KeyError", d.reqs)
        ELSE IF d.ret["Operations"] # <<>>
        THEN Raise(d.cache, "OperationInProgress", d.reqs)
        ELSE d

\* IDRAC.initialize_virtual_disk(uri, fast), up to its test of Operations:
\* the GET of the volume, answered by res, and the test.
initialize_disk_check(c, uri, res) ==
    LET d == get(c, uri, res)
    IN  IF d.exc # "none" THEN d
        ELSE IF "Operations" \notin DOMAIN d.ret THEN Raise(d.cache, "KeyError", d.reqs)
        ELSE IF d.ret["Operations"] # <<>>
        THEN Raise(d.cache, "OperationInProgress", d.reqs)
        ELSE d

\* IDRAC.initialize_virtual_disk(uri, fast), from its call of _execute_action
\* on: reqs are the requests the call has sent before, resGet the server's
\* answer should _execute_action fetch the volume, resPost its answer to the
\* POST.
initialize_disk_action(c, uri, fast, resGet, resPost, reqs) ==
    LET init_type == IF fast THEN "Fast" ELSE "Slow"
        a == _execute_action(c, uri, "#Volume.Initialize",
                             <<(<<"InitializeType", init_type>>)>>,
                             resGet, resPost)
    IN  job_id_of(a, reqs \o a.reqs)

\* IDRAC.initialize_virtual_disk(uri, fast), on a server that stays as it is
\* while the call runs.
initialize_virtual_disk(c, uri, fast, srv, resPost) ==
    CHOOSE r \in {IF d.exc # "none" THEN d
                  ELSE initialize_disk_action(d.cache, uri, fast, Answer(srv, uri),
                                              resPost, d.reqs) :
                  d \in {initialize_disk_check(c, uri, Answer(srv, uri))}} : TRUE

(***************************************************************************)
(* Calls of the storage accessors and of initialize_virtual_disk, one      *)
(* after another on one session, against a server holding two controllers *)
(* and three volumes.  Between calls an operation may start or end on the  *)
(* first volume.                                                           *)
(***************************************************************************)
Ctrl1 == <<"/","c","1">>
Ctrl2 == <<"/","c","2">>
Vol1 == <<"/","v","/","V","1">>
Vol2 == <<"/","v","/","V","2">>
Vol3 == <<"/","v","/","V","3">>

\* A container resource: 'Members', a list of {'@odata.id': uri}.
Collection(uris) == [Members |-> [i \in DOMAIN uris |-> ("@odata.id" :> uris[i])]]

\* A volume resource.
VolumeDoc(uri, id, name, ops, types) ==
    ("@odata.id" :> uri)
    @@ [Id |-> id, Name |-> name, Operations |-> ops,
        Actions |-> ("#Volume.Initialize" :>
                        (("target" :> (uri \o <<"/","I">>))
                         @@ ("InitializeType@Redfish.AllowableValues" :> types)))]

\* What the server holds: the controllers in the order ctrls, the first
\* controller with the volumes V1 and V2, the second with V3; V2 is named
\* name2 and accepts only a fast initialization; ops are the operations
\* running on V1; V3 is listed but cannot be fetched when dangling.
Server(ctrls, name2, ops, dangling) ==
    (RESOURCES_storage :> OkJson(Collection(ctrls)))
    @@ (VolumesUri(Ctrl1) :> OkJson(Collection(<<Vol1, Vol2>>)))
    @@ (VolumesUri(Ctrl2) :> OkJson(Collection(<<Vol3>>)))
    @@ (Vol1 :> OkJson(VolumeDoc(Vol1, <<"V","1">>, <<"A">>, ops, {"Fast", "Slow"})))
    @@ (Vol2 :> OkJson(VolumeDoc(Vol2, <<"V","2">>, name2, <<>>, {"Fast"})))
    @@ (IF dangling THEN <<>>
        ELSE (Vol3 :> OkJson(VolumeDoc(Vol3, <<"V","3">>, <<"B">>, <<>>, {"Fast", "Slow"}))))

Running == <<"Initialize">>

Servers ==
    {Server(ctrls, <<"B">>, <<>>, dangling) :
        ctrls \in {<<>>, <<Ctrl1, Ctrl2>>, <<Ctrl2, Ctrl1>>},
        dangling \in BOOLEAN}

\* The responses to the POST of the Initialize action: success with a
\* Location header (or none), or an HTTP error.
Locations ==
    {<<>>, <<"/","j","/","J","I","D","_","1">>, <<"/","j","/","J","I","D","_","1","/">>,
     <<"J","I","D","_","1">>, <<"/","j","/","J","1">>, <<"/","J","I","D","/","x">>}
InitResponses ==
    {Response(200, "application/json", "empty", EmptyDoc, loc) : loc \in Locations}
    \cup {HttpError}

\* The record of a completed accessor call; was holds the cached copy of
\* the resource the call is about, as it was before the call, if any.
DoneStorage(op, arg, was, r) ==
    [op |-> op, arg |-> arg, was |-> was, exc |-> r.exc, ret |-> r.ret, reqs |-> r.reqs]

CachedCopy(uri) == IF uri \in DOMAIN cache THEN <<cache[uri]>> ELSE <<>>

CallListStorageControllers ==
    \E detail \in BOOLEAN :
        LET r == list_storage_controllers(cache, detail, server)
        IN  /\ cache' = r.cache
            /\ last' = DoneStorage("list_storage_controllers", [detail |-> detail], <<>>, r)
            /\ UNCHANGED <<lastGet, prevGet, server, input, output>>
            /\ UNCHANGED runVars

CallListVirtualDisks ==
    \E uri \in {Ctrl1, Ctrl2}, detail \in BOOLEAN :
        LET r == list_virtual_disks(cache, uri, detail, server)
        IN  /\ cache' = r.cache
            /\ last' = DoneStorage("list_virtual_disks", [uri |-> uri, detail |-> detail],
                                   <<>>, r)
            /\ UNCHANGED <<lastGet, prevGet, server, input, output>>
            /\ UNCHANGED runVars

CallListAllVirtualDisks ==
    \E detail \in BOOLEAN :
        LET r == list_all_virtual_disks(cache, detail, server)
        IN  /\ cache' = r.cache
            /\ last' = DoneStorage("list_all_virtual_disks", [detail |-> detail], <<>>, r)
            /\ UNCHANGED <<lastGet, prevGet, server, input, output>>
            /\ UNCHANGED runVars

CallGetVirtualDiskByName ==
    \E name \in {<<"B">>, <<"C">>} :
        LET r == get_virtual_disk_by_name(cache, name, server)
        IN  /\ cache' = r.cache
            /\ last' = DoneStorage("get_virtual_disk_by_name", [want |-> name], <<>>, r)
            /\ UNCHANGED <<lastGet, prevGet, server, input, output>>
            /\ UNCHANGED runVars

CallGetVirtualDiskById ==
    \E id \in {<<"V","3">>, <<"V","9">>} :
        LET r == get_virtual_disk_by_id(cache, id, server)
        IN  /\ cache' = r.cache
            /\ last' = DoneStorage("get_virtual_disk_by_id", [want |-> id], <<>>, r)
            /\ UNCHANGED <<lastGet, prevGet, server, input, output>>
            /\ UNCHANGED runVars

\* The server's answers to the POST a call makes; a single one where none is
\* read, the call ending before it posts.
Posting(r) == \E i \in DOMAIN r.reqs : r.reqs[i].method = "POST"
InitResponsesFor(uri, fast) ==
    IF Posting(initialize_disk_action(cache, uri, fast, Answer(server, uri),
                                      HttpError, <<>>))
    THEN InitResponses ELSE {HttpError}

\* The record of a finished initialize_virtual_disk: answer is the server's
\* answer to the call's GET of the volume, was the session's copy of the
\* volume before the call.
DoneInitialize(uri, fast, answer, resPost, was, r) ==
    DoneStorage("initialize_virtual_disk",
                [uri |-> uri, fast |-> fast, resPost |-> resPost, answer |-> answer],
                was, r)

\* initialize_virtual_disk sends its GET of the volume and tests Operations;
\* the call ends here if it raises, and goes on to its POST otherwise.
CallInitializeVirtualDisk ==
    /\ pc = "idle"
    /\ \E uri \in {Vol1, Vol2, Vol3}, fast \in BOOLEAN :
        LET answer == Answer(server, uri)
            d == initialize_disk_check(cache, uri, answer)
        IN  /\ cache' = d.cache
            /\ IF d.exc # "none"
               THEN /\ last' = DoneInitialize(uri, fast, answer, HttpError,
                                              CachedCopy(uri), d)
                    /\ UNCHANGED <<pc, call>>
               ELSE /\ pc' = "initialize_action"
                    /\ call' = [op |-> "initialize_virtual_disk", uri |-> uri,
                                fast |-> fast, answer |-> answer,
                                was |-> CachedCopy(uri), reqs |-> d.reqs]
                    /\ last' = NoOp
    /\ UNCHANGED <<lastGet, prevGet, server, input, output>>
    /\ UNCHANGED waitVars

\* initialize_virtual_disk goes on: _execute_action, which finds the volume
\* in the cache, posts to the server as it now is, and the job id is taken
\* from the answer.
InitializeVirtualDiskAction ==
    /\ pc = "initialize_action"
    /\ \E resPost \in InitResponsesFor(call.uri, call.fast) :
        LET r == initialize_disk_action(cache, call.uri, call.fast,
                                        Answer(server, call.uri), resPost, call.reqs)
        IN  /\ cache' = r.cache
            /\ last' = DoneInitialize(call.uri, call.fast, call.answer, resPost,
                                      call.was, r)
    /\ pc' = "idle"
    /\ call' = NoCall
    /\ UNCHANGED <<lastGet, prevGet, server, input, output>>
    /\ UNCHANGED waitVars

\* An operation starts or ends on V1, between two calls or between two
\* requests of one call.
ServerChanges ==
    /\ \E ops \in {<<>>, Running} :
          /\ server[Vol1].json["Operations"] # ops
          /\ server' = [server EXCEPT ![Vol1].json["Operations"] = ops]
    /\ UNCHANGED <<cache, last, lastGet, prevGet, input, output>>
    /\ UNCHANGED runVars

InitStorage == \E srv \in Servers : InitState(srv, NoInput)

NextStorage ==
    \/ CallListStorageControllers
    \/ CallListVirtualDisks
    \/ CallListAllVirtualDisks
    \/ CallGetVirtualDiskByName
    \/ CallGetVirtualDiskById

SpecStorage == InitStorage /\ [][NextStorage]_vars

\* Initializations of the volumes, one after another on one session, while
\* operations start and end on V1.
InitVolume ==
    \E ops \in {<<>>, Running}, dangling \in BOOLEAN :
        InitState(Server(<<Ctrl1, Ctrl2>>, <<"B">>, ops, dangling), NoInput)

NextVolume ==
    \/ CallInitializeVirtualDisk
    \/ InitializeVirtualDiskAction
    \/ ServerChanges

SpecVolume == InitVolume /\ [][NextVolume]_vars

InitializeDone == "op" \in DOMAIN last /\ last.op = "initialize_virtual_disk"

\* The server's answer to the call's GET of the volume is a representation
\* that reports an operation.
ReportsOperation(answer) ==
    /\ ~IsHttpError(answer.status)
    /\ answer.json["Operations"] # <<>>

\* C15: initialize_virtual_disk on a volume whose freshly fetched
\* representation has a non-empty Operations list raises OperationInProgress
\* after its GET and posts nothing; whenever it goes on to _execute_action
\* and whenever it posts, its own GET of the volume came first and the
\* representation it fetched reported no operation.
C15_InProgressNoPost ==
    /\ InitializeDone =>
        /\ ReportsOperation(last.arg.answer) =>
              /\ last.exc = "OperationInProgress"
              /\ Posts(last.reqs) = <<>>
              /\ Len(last.reqs) = 1
        /\ Posts(last.reqs) # <<>> =>
              /\ last.reqs[1].method = "GET"
              /\ last.reqs[1].uri = last.arg.uri
              /\ ~ReportsOperation(last.arg.answer)
    /\ pc = "initialize_action" =>
        /\ Len(call.reqs) = 1
        /\ call.reqs[1].method = "GET"
        /\ call.reqs[1].uri = call.uri
        /\ ~ReportsOperation(call.answer)
        /\ call.uri \in DOMAIN cache
        /\ cache[call.uri] = Decoded(call.answer)

\* The session held a copy of the volume without operations, the server
\* answered the call's GET with one that reports an operation, and the call
\* raised OperationInProgress.
C15_Witness ==
    /\ InitializeDone
    /\ last.was # <<>>
    /\ last.was[1]["Operations"] = <<>>
    /\ ReportsOperation(last.arg.answer)
    /\ last.exc = "OperationInProgress"

\* seg is what follows the last '/' of loc, or the whole of loc if it has
\* none.
FinalSegment(loc, seg) ==
    /\ \A i \in DOMAIN seg : seg[i] # "/"
    /\ Len(seg) <= Len(loc)
    /\ SubSeq(loc, Len(loc) - Len(seg) + 1, Len(loc)) = seg
    /\ Len(seg) < Len(loc) => loc[Len(loc) - Len(seg)] = "/"

\* C20: initialize_virtual_disk returns only after an action POST whose
\* response's Location holds 'JID', and returns the final '/'-separated
\* segment of that Location; when the POST succeeded and the Location is
\* empty or holds no 'JID' it raises JobSchedulingFailed.
C20_JobIdFromLocation ==
    InitializeDone =>
        LET loc == last.arg.resPost.Location
        IN  /\ last.exc = "none" =>
                  /\ Posts(last.reqs) # <<>>
                  /\ Contains(loc, <<"J","I","D">>)
                  /\ FinalSegment(loc, last.ret)
            /\ ( /\ Posts(last.reqs) # <<>>
                 /\ ~IsHttpError(last.arg.resPost.status)
                 /\ ~Contains(loc, <<"J","I","D">>) ) =>
                  /\ last.exc = "JobSchedulingFailed"
                  /\ last.ret = EmptyDoc

\* A call returned the job id JID_1 found at the end of the Location.
C20_Witness ==
    /\ InitializeDone
    /\ last.exc = "none"
    /\ last.arg.resPost.Location = <<"/","j","/","J","I","D","_","1">>
    /\ last.ret = <<"J","I","D","_","1">>

\* The paths a container resource of the server lists, in its order.
MemberPaths(uri) ==
    LET m == server[uri].json["Members"] IN [i \in DOMAIN m |-> m[i]["@odata.id"]]

\* The volumes of the controllers ctrls, controller after controller.
RECURSIVE VolumesOf(_)
VolumesOf(ctrls) ==
    IF ctrls = <<>> THEN <<>>
    ELSE MemberPaths(VolumesUri(Head(ctrls))) \o VolumesOf(Tail(ctrls))

ListedVolumes == VolumesOf(MemberPaths(RESOURCES_storage))

AllFetchable == \A i \in DOMAIN ListedVolumes : ListedVolumes[i] \in DOMAIN server

\* e refers to the volume at path: it holds the path and the short
\* identifier, the path's final segment, and nothing else.
IsMemberReference(e, path) ==
    /\ DOMAIN e = {"@odata.id", "Id"}
    /\ e["@odata.id"] = path
    /\ FinalSegment(path, e["Id"])

\* C18 as stated: list_all_virtual_disks returns, for the volumes the
\* controllers list and in that order, one member reference each, holding
\* the volume's path and its short identifier.
C18_Original ==
    ("op" \in DOMAIN last /\ last.op = "list_all_virtual_disks") =>
        /\ last.exc = "none"
        /\ Len(last.ret) = Len(ListedVolumes)
        /\ \A i \in DOMAIN ListedVolumes : IsMemberReference(last.ret[i], ListedVolumes[i])

\* The listed volumes read from the server whose field key equals wanted.
Matches(key, wanted) ==
    {i \in DOMAIN ListedVolumes : server[ListedVolumes[i]].json[key] = wanted}

FirstMatch(key, wanted) ==
    CHOOSE i \in Matches(key, wanted) : \A j \in Matches(key, wanted) : i <= j

FindKey == IF last.op = "get_virtual_disk_by_name" THEN "Name" ELSE "Id"

\* C17 as stated: with every listed volume fetchable, get_virtual_disk_by_name
\* and get_virtual_disk_by_id raise nothing, GET afresh each candidate up to
\* the first whose Name (Id) equals the argument and return its detail, and
\* return None when no volume matches.
C17_Original ==
    ( /\ "op" \in DOMAIN last
      /\ last.op \in {"get_virtual_disk_by_name", "get_virtual_disk_by_id"}
      /\ AllFetchable ) =>
        /\ last.exc = "none"
        /\ IF Matches(FindKey, last.arg.want) = {}
           THEN /\ last.ret = None
                /\ \A i \in DOMAIN ListedVolumes :
                      \E k \in DOMAIN last.reqs :
                          last.reqs[k] = NetReq("GET", ListedVolumes[i], last.reqs[k].json)
           ELSE LET f == FirstMatch(FindKey, last.arg.want)
                IN  /\ last.ret # None
                    /\ last.ret["@odata.id"] = ListedVolumes[f]
                    /\ last.ret[FindKey] = last.arg.want
                    /\ \A i \in 1..f :
                          \E k \in DOMAIN last.reqs :
                              last.reqs[k] = NetReq("GET", ListedVolumes[i], last.reqs[k].json)

\* C21: in a power cycle whose first fetch reported 'On', GracefulShutdown
\* is the first reset and ForceOff, if issued, the second; 'On' is issued
\* right after a poll of the graceful or of the forced wait that read 'Off'
\* and is the last reset; the call returns only when the last poll, a poll
\* of the wait for 'On', read 'On'; and a TimeoutError of the wait for 'On'
\* ends the call with that error, no step following.
C21_PowerCycleOrder ==
    (call.op = "power_cycle_system" /\ first = "On") =>
        /\ \/ IsPrefix(Resets, <<"GracefulShutdown", "ForceOff", "On">>)
           \/ IsPrefix(Resets, <<"GracefulShutdown", "On">>)
        /\ (pc = "pcs_on" \/ "On" \in {Resets[i] : i \in DOMAIN Resets}) => offSeen
        /\ pc = "pcs_on" =>
              /\ lastPoll.phase \in {"graceful", "forced"}
              /\ lastPoll.have = "Off"
              /\ lastPoll.verdict = "break"
        /\ (pc = "done" /\ outcome = "returned") =>
              /\ lastPoll.phase = "poweron"
              /\ lastPoll.have = "On"
              /\ Resets # <<>>
              /\ Resets[Len(Resets)] = "On"
        /\ (lastPoll.phase = "poweron" /\ lastPoll.verdict = "TimeoutError") =>
              /\ pc = "done"
              /\ outcome = "TimeoutError"
              /\ Resets[Len(Resets)] = "On"
              /\ ~ENABLED NextRun

\* The graceful wait timed out, the forced wait read 'Off', 'On' was posted
\* and the wait for 'On' timed out.
C21_Witness ==
    /\ call.op = "power_cycle_system"
    /\ first = "On"
    /\ Resets = <<"GracefulShutdown", "ForceOff", "On">>
    /\ offSeen
    /\ lastPoll.phase = "poweron"
    /\ lastPoll.verdict = "TimeoutError"
    /\ pc = "done"

\* C23: wait_for_job_state, its fetches succeeding, ends only by returning
\* at a poll that read the wanted state or by raising TimeoutError at a poll
\* later than a given timeout after its start.  A poll that reads any other
\* state, failed and finished included, before the deadline is followed by a
\* sleep of PollInterval and another poll; with no timeout TimeoutError is
\* never raised and the sleep and the next poll always follow.
C23_OnlyTargetOrDeadline ==
    call.op = "wait_for_job_state" =>
        /\ (pc = "done" /\ outcome \notin Failures) =>
              \/ outcome = "returned" /\ lastPoll.have = want
              \/ /\ outcome = "TimeoutError"
                 /\ lastPoll.have # want
                 /\ call.timeout # NoTimeout
                 /\ lastPoll.at - time_start > call.timeout[1]
        /\ (polls >= 1 /\ lastPoll.have \notin {want, ""}
               /\ lastPoll.verdict # "TimeoutError") =>
              /\ lastPoll.verdict = "sleep"
              /\ pc \in {"wjs_sleep", "wjs_poll"}
        /\ pc = "wjs_poll" => polls = sleeps
        /\ pc = "wjs_sleep" => polls = sleeps + 1
        /\ pc \in {"wjs_poll", "wjs_sleep"} =>
              now - time_start = sleeps * PollInterval + polls * call.latency
        /\ pc = "wjs_poll" => ENABLED NextRun
        /\ call.timeout = NoTimeout =>
              /\ outcome # "TimeoutError"
              /\ (pc = "wjs_sleep" /\ now + PollInterval <= MaxClock) => ENABLED NextRun

\* A wait for finished without timeout that has read failed at its third
\* poll or later and goes on to sleep.
C23_Witness ==
    /\ call.op = "wait_for_job_state"
    /\ call.timeout = NoTimeout
    /\ want = "finished"
    /\ lastPoll.have = "failed"
    /\ polls >= 3
    /\ pc = "wjs_sleep"

(***************************************************************************)
(* list_jobs, called again and again on one session while jobs are created *)
(* and make progress on the server.                                        *)
(***************************************************************************)
\* One turn of the loop of list_jobs over the members when detail is asked
\* for: self.get_job(member), answered by res, its result appended to the
\* jobs acc holds.
list_jobs_detail_step(acc, member, res) ==
    CHOOSE r \in
      {IF g.exc # "none" THEN Raise(g.cache, g.exc, acc.reqs \o g.reqs)
       ELSE Return(g.cache, Append(acc.ret, g.ret), acc.reqs \o g.reqs) :
         g \in {get_job(acc.cache, member, res)}} : TRUE

\* The loop of list_jobs over the members when detail is asked for, from
\* member i on, on a server that stays as it is:
\* [self.get_job(member) for member in members]
RECURSIVE jobs_detail_from(_, _, _, _)
jobs_detail_from(acc, members, i, srv) ==
    IF i > Len(members) THEN acc
    ELSE CHOOSE r \in
           {IF next.exc # "none" THEN next
            ELSE jobs_detail_from(next, members, i + 1, srv) :
              next \in {list_jobs_detail_step(acc, members[i],
                                              Answer(srv, JobUri(members[i])))}} : TRUE

\* The start of list_jobs, mutated: the jobs container is read with get.
list_jobs_members_fresh(c, resJobs) ==
    CHOOSE r \in
      {IF g.exc # "none" THEN g
       ELSE _extract_members(g.cache, g.ret, "Members", FALSE, FALSE, <<>>, g.reqs) :
         g \in {get(c, RESOURCES_jobs, resJobs)}} : TRUE

\* IDRAC.list_jobs(detail), up to its test of detail: the jobs container is
\* read with get_cached, resJobs being the server's answer to a GET of it,
\* and its members are extracted.
list_jobs_members(c, resJobs) ==
    CHOOSE r \in
      {IF g.exc # "none" THEN g
       ELSE _extract_members(g.cache, g.ret, "Members", FALSE, FALSE, <<>>, g.reqs) :
         g \in {get_cached(c, RESOURCES_jobs, resJobs)}} : TRUE

\* IDRAC.list_jobs(detail), on a server that stays as it is while the call
\* runs.
list_jobs(c, detail, srv, resJobs) ==
    CHOOSE r \in
      {IF m.exc # "none" \/ ~detail THEN m
       ELSE jobs_detail_from(Return(m.cache, <<>>, m.reqs), m.ret, 1, srv) :
         m \in {list_jobs_members(c, resJobs)}} : TRUE

Job1 == <<"/","j","/","J","1">>
Job2 == <<"/","j","/","J","2">>

\* A job resource.
JobDoc(uri, msg) == ("@odata.id" :> uri) @@ [Message |-> msg]

\* A server whose jobs container lists members; the first job carries msg1.
JobsServer(members, msg1) ==
    (RESOURCES_jobs :> OkJson(Collection(members)))
    @@ (Job1 :> OkJson(JobDoc(Job1, msg1)))

JobsServers ==
    {JobsServer(members, MsgRunning) : members \in {<<>>, <<Job1>>}}

\* The record of a completed list_jobs call: was is the cached jobs
\* container before it, answers the server's answers to its GETs of the
\* jobs, one after another, later tells whether list_jobs had been called
\* before, atFirst is what the server's container listed when list_jobs was
\* first called (listed, when this call began), and fetched the container as
\* first fetched with success.
IsListJobs(l) == "op" \in DOMAIN l /\ l.op = "list_jobs"

DoneJobs(detail, resJobs, was, listed, answers, r) ==
    [op |-> "list_jobs", detail |-> detail, resJobs |-> resJobs,
     was |-> was, answers |-> answers,
     exc |-> r.exc, ret |-> r.ret, reqs |-> r.reqs,
     later |-> IsListJobs(last),
     atFirst |-> IF IsListJobs(last) THEN last.atFirst ELSE listed,
     fetched |-> IF IsListJobs(last) /\ last.fetched # <<>> THEN last.fetched
                 ELSE IF RESOURCES_jobs \in DOMAIN r.cache
                 THEN <<r.cache[RESOURCES_jobs]>>
                 ELSE <<>>]

\* The server's answers to the GET of the jobs container: the container or,
\* the server failing for once, an HTTP error; a single one where none is
\* read, the container being cached.
JobsResponses ==
    IF RESOURCES_jobs \in DOMAIN cache THEN {HttpError}
    ELSE {server[RESOURCES_jobs], HttpError}

\* list_jobs reads the jobs container and extracts its members; the call
\* ends here unless detail is asked for and there are members to fetch.
CallListJobs ==
    /\ pc = "idle"
    /\ \E detail \in BOOLEAN, resJobs \in JobsResponses :
        LET m == list_jobs_members(cache, resJobs)
            listed == server[RESOURCES_jobs].json["Members"]
        IN  /\ cache' = m.cache
            /\ IF m.exc # "none" \/ ~detail \/ m.ret = <<>>
               THEN /\ last' = DoneJobs(detail, resJobs, CachedCopy(RESOURCES_jobs),
                                        listed, <<>>, m)
                    /\ UNCHANGED <<pc, call>>
               ELSE /\ pc' = "list_jobs_detail"
                    /\ call' = [op |-> "list_jobs", detail |-> detail,
                                resJobs |-> resJobs,
                                was |-> CachedCopy(RESOURCES_jobs),
                                listed |-> listed, members |-> m.ret,
                                answers |-> <<>>, ret |-> <<>>, reqs |-> m.reqs]
                    /\ UNCHANGED last
    /\ UNCHANGED <<lastGet, prevGet, server, input, output>>
    /\ UNCHANGED waitVars

\* list_jobs fetches the next member with get_job, answered by the server as
\* it now is; the call ends with the last member or with an exception.
ListJobsDetail ==
    /\ pc = "list_jobs_detail"
    /\ LET i == Len(call.ret) + 1
           res == Answer(server, JobUri(call.members[i]))
           r == list_jobs_detail_step(Return(cache, call.ret, call.reqs),
                                      call.members[i], res)
       IN  /\ cache' = r.cache
           /\ IF r.exc # "none" \/ i = Len(call.members)
              THEN /\ last' = DoneJobs(call.detail, call.resJobs, call.was,
                                       call.listed, Append(call.answers, res), r)
                   /\ pc' = "idle"
                   /\ call' = NoCall
              ELSE /\ call' = [call EXCEPT !.ret = r.ret, !.reqs = r.reqs,
                                           !.answers = Append(@, res)]
                   /\ UNCHANGED <<pc, last>>
    /\ UNCHANGED <<lastGet, prevGet, server, input, output>>
    /\ UNCHANGED waitVars

\* A job is created on the server (as by initialize_virtual_disk), between
\* two calls or between two requests of one call: the container lists it
\* after the others.
JobCreated ==
    /\ Job2 \notin DOMAIN server
    /\ server' = (Job2 :> OkJson(JobDoc(Job2, MsgScheduled)))
                 @@ [server EXCEPT ![RESOURCES_jobs].json["Members"] =
                                       Append(@, ("@odata.id" :> Job2))]
    /\ UNCHANGED <<cache, last, lastGet, prevGet, input, output>>
    /\ UNCHANGED runVars

\* The first job makes progress: its message changes.
JobProgresses ==
    /\ \E msg \in {MsgRunning, MsgFinished} :
          /\ server[Job1].json["Message"] # msg
          /\ server' = [server EXCEPT ![Job1].json["Message"] = msg]
    /\ UNCHANGED <<cache, last, lastGet, prevGet, input, output>>
    /\ UNCHANGED runVars

InitJobs == \E srv \in JobsServers : InitState(srv, NoInput)

NextJobs ==
    \/ CallListJobs
    \/ ListJobsDetail
    \/ JobCreated
    \/ JobProgresses

SpecJobs == InitJobs /\ [][NextJobs]_vars

\* The paths a decoded container lists, and the paths of the jobs a
\* list_jobs call returned.
PathsOf(members) == [i \in DOMAIN members |-> members[i]["@odata.id"]]
RetPaths(l) == IF l.detail THEN [i \in DOMAIN l.ret |-> l.ret[i]["@odata.id"]] ELSE l.ret

\* C22 as stated: every list_jobs call after the first returns the members
\* the jobs container listed when list_jobs was first called.
C22_Original ==
    (IsListJobs(last) /\ last.later /\ last.exc = "none") =>
        RetPaths(last) = PathsOf(last.atFirst)

\* C22, amended: the jobs container is fetched by the first list_jobs call
\* whose GET of it succeeds and never again: every later call makes no
\* request for it and returns the members of that fetch, whatever the server
\* lists by then; a call made before (every earlier GET of the container
\* having failed) fetches it.  With detail each listed job is fetched
\* with one GET in every call, in the listed order, and the result holds
\* what the server answered to that GET.
C22_ListFromFirstFetch ==
    /\ (IsListJobs(last) /\ pc = "idle") =>
        LET k == IF last.was = <<>> THEN 1 ELSE 0
            paths == PathsOf(last.fetched[1]["Members"])
        IN  /\ last.fetched # <<>> <=> RESOURCES_jobs \in DOMAIN cache
            /\ last.fetched # <<>> => cache[RESOURCES_jobs] = last.fetched[1]
            /\ last.was # <<>> =>
                  /\ last.was = last.fetched
                  /\ \A i \in DOMAIN last.reqs : last.reqs[i].uri # RESOURCES_jobs
            /\ last.was = <<>> =>
                  /\ last.reqs # <<>>
                  /\ last.reqs[1].method = "GET"
                  /\ last.reqs[1].uri = RESOURCES_jobs
                  /\ last.fetched # <<>> => last.fetched[1] = Decoded(last.resJobs)
            /\ last.exc = "none" =>
                  /\ last.fetched # <<>>
                  /\ RetPaths(last) = paths
                  /\ Len(last.reqs) = k + (IF last.detail THEN Len(paths) ELSE 0)
                  /\ last.detail =>
                        /\ Len(last.answers) = Len(paths)
                        /\ \A i \in DOMAIN paths :
                            /\ last.reqs[k + i].method = "GET"
                            /\ last.reqs[k + i].uri = paths[i]
                            /\ last.ret[i] = Decoded(last.answers[i])
    /\ pc = "list_jobs_detail" =>
        LET k == IF call.was = <<>> THEN 1 ELSE 0
        IN  /\ RESOURCES_jobs \in DOMAIN cache
            /\ call.members = PathsOf(cache[RESOURCES_jobs]["Members"])
            /\ IsListJobs(last) /\ last.fetched # <<>> =>
                  /\ call.was = last.fetched
                  /\ cache[RESOURCES_jobs] = last.fetched[1]
            /\ call.was # <<>> => call.was[1] = cache[RESOURCES_jobs]
            /\ Len(call.reqs) = k + Len(call.ret)
            /\ Len(call.ret) < Len(call.members)
            /\ \A i \in DOMAIN call.reqs : call.reqs[i].uri = RESOURCES_jobs => i = k

\* A later call returned the first job alone, with its message as the server
\* answered it in that call, while the server listed a second job.
C22_Witness ==
    /\ IsListJobs(last)
    /\ pc = "idle"
    /\ last.later
    /\ last.was # <<>>
    /\ last.exc = "none"
    /\ last.detail
    /\ PathsOf(server[RESOURCES_jobs].json["Members"]) = <<Job1, Job2>>
    /\ RetPaths(last) = <<Job1>>
    /\ last.ret[1]["Message"] = MsgFinished
    /\ last.answers[1].json["Message"] = MsgFinished

=============================================================================
